---- MODULE Spec2Model ----
(***************************************************************************)
(* A model of the tables library (tables.hh / tables.cc): the column-item  *)
(* tree, the table registry, the binding graph between tables and output   *)
(* files, and the prolog / emit_row / epilog protocol with a text sink and *)
(* a binary (HDF5) sink.                                                   *)
(*                                                                         *)
(* The program state is kept in one variable per field.  Every operation   *)
(* of the library is an operator that maps a state record (one entry per   *)
(* variable) to an outcome [st, res, hooks]: the state it leaves, whether  *)
(* it returned ("ok"), threw ("error") or killed the process ("abort": a   *)
(* failed assert, an exception leaving a destructor, a stack overflow),    *)
(* and the sink hooks it invoked, in order.                                *)
(***************************************************************************)
EXTENDS Integers, Sequences, FiniteSets, TLC

NULL == "null"

\* The objects a run can construct.  Names are fixed at construction
\* (column_item::_name is never assigned afterwards).
Tables == {"T1", "T2", "T3"}
Groups == {"G1", "G2"}
Columns == {"c1", "c2", "c3"}
Items == Tables \cup Groups \cup Columns
GroupLike == Tables \cup Groups
Files == {"F1", "F2", "F3", "F4", "F5", "F6"}

ItemName(i) ==
    CASE i = "T1" -> "R" [] i = "T2" -> "R" [] i = "T3" -> "S"
      [] i = "G1" -> "g" [] i = "G2" -> "h"
      [] i = "c1" -> "x" [] i = "c2" -> "y" [] i = "c3" -> "x"

Names == {ItemName(i) : i \in Items}

\* Bounds of the model.
MaxBindings == 3
MaxRows == 2
MaxVal == 1
MaxChildren == 3

MaxPathLen == 3
MaxCols == 3
BindingIds == 1..MaxBindings
Values == 0..MaxVal

VARIABLES
    live,           \* items constructed and not yet destroyed
    parent,         \* column_item::_parent
    index,          \* column_item::_index (0-based)
    children,       \* column_group::_children (NULL = nullptr slot)
    item_names,     \* column_group::_item_names
    dirty,          \* column_group::_dirty
    dirty_columns,  \* output_table::_dirty_columns
    columns,        \* output_table::_columns (flat cache)
    val,            \* column<T>::val
    en,             \* output_table::en
    locked,         \* output_table::_locked
    files,          \* output_table::files (list of bindings)
    registry,       \* __table_registry()
    all_tables,     \* __all_tables()
    binding,        \* heap of output_binding objects, by id
    tables,         \* output_file::tables (list of bindings)
    flive,          \* output files constructed and not yet destroyed
    fmtr,           \* output_c_file::fmtr (tables that have a formatter)
    stream,         \* output_c_file stream contents (lines written)
    handler,        \* output_hdf5::_handler
    dataset,        \* datasets at the HDF5 location, by name
    sent,           \* history: per (table, file), the snapshots emit_row took
    bcol,           \* a basic_column used on its own: its kind and value
    bar,            \* a progress_bar: its fields and the marks it printed
    lastop          \* the last operation: what was called and how it ended

vars == <<live, parent, index, children, item_names, dirty, dirty_columns,
          columns, val, en, locked, files, registry, all_tables, binding,
          tables, flive, fmtr, stream, handler, dataset, sent, bcol, bar,
          lastop>>

\* The program state as one record.
State ==
    [live |-> live, parent |-> parent, index |-> index, children |-> children,
     item_names |-> item_names, dirty |-> dirty, dirty_columns |-> dirty_columns,
     columns |-> columns, val |-> val, en |-> en, locked |-> locked,
     files |-> files, registry |-> registry, all_tables |-> all_tables,
     binding |-> binding, tables |-> tables, flive |-> flive, fmtr |-> fmtr,
     stream |-> stream, handler |-> handler, dataset |-> dataset, sent |-> sent,
     bcol |-> bcol, bar |-> bar]

\* An outcome of an operation.
Ok(st) == [st |-> st, res |-> "ok", hooks |-> <<>>]
Err(st) == [st |-> st, res |-> "error", hooks |-> <<>>]
Abort(st) == [st |-> st, res |-> "abort", hooks |-> <<>>]

\* The outcome of an operation that returns the value v.
Returns(st, v) == [st |-> st, res |-> "ok", hooks |-> <<>>, ret |-> v]

\* The value x under a local name: body(x).
With(x, body(_)) == body(x)

\* The two builds of Makefile.am: with asserts ("debug") and with -DNDEBUG.
Builds == {"debug", "release"}

-----------------------------------------------------------------------------
(* Column items                                                            *)

Fuel == Cardinality(Items)

\* column_item::table / output_table::table; "diverge" when the parent
\* chain never ends (unbounded recursion).
RECURSIVE TableWalk(_, _, _)
TableWalk(st, i, fuel) ==
    IF i \in Tables THEN i
    ELSE IF st.parent[i] = NULL THEN NULL
    ELSE IF fuel = 0 THEN "diverge"
    ELSE TableWalk(st, st.parent[i], fuel - 1)

TableOf(st, i) == TableWalk(st, i, Fuel)

\* column_item::table as the destructors of column_group and column_item
\* see it: the object is no longer an output_table, so the walk starts at
\* the parent link.
BaseTableOf(st, i) ==
    IF st.parent[i] = NULL THEN NULL ELSE TableOf(st, st.parent[i])

\* column_item::_check_unlocked: "ok", "error" (owner locked), "abort".
CheckOwner(st, owner) ==
    IF owner = "diverge" THEN "abort"
    ELSE IF owner # NULL /\ st.locked[owner] THEN "error"
    ELSE "ok"

\* Faulty variant: the owner's lock is never looked at.
_check_unlocked_never(st, i) == "ok"

_check_unlocked(st, i) == CheckOwner(st, TableOf(st, i))

\* column_group::_mark_dirty
RECURSIVE MarkDirtyWalk(_, _, _)
MarkDirtyWalk(st, g, fuel) ==
    IF st.dirty[g] THEN Ok(st)
    ELSE IF fuel = 0 THEN Abort(st)
    ELSE With(IF st.parent[g] # NULL
              THEN MarkDirtyWalk(st, st.parent[g], fuel - 1)
              ELSE Ok(st),
              LAMBDA up :
                IF up.res # "ok" THEN up
                ELSE Ok([up.st EXCEPT !.dirty[g] = TRUE]))

_mark_dirty(st, g) == MarkDirtyWalk(st, g, Fuel)

\* column_group::_mark_dirty_columns
_mark_dirty_columns(st, g) ==
    LET tab == TableOf(st, g)
    IN IF tab = "diverge" THEN Abort(st)
       ELSE IF tab # NULL THEN Ok([st EXCEPT !.dirty_columns[tab] = TRUE])
       ELSE Ok(st)

\* Faulty variant: the name of the new child is not looked up.
add_item_anyname(st, g, col) ==
    IF col \in Tables THEN Err(st)
    ELSE IF _check_unlocked(st, g) = "abort" THEN Abort(st)
    ELSE IF _check_unlocked(st, g) = "error" THEN Err(st)
    ELSE IF st.parent[col] # NULL THEN Err(st)
    ELSE _mark_dirty_columns([st EXCEPT
                                !.parent[col] = g,
                                !.index[col] = Len(st.children[g]),
                                !.children[g] = Append(st.children[g], col),
                                !.item_names[g][ItemName(col)] = col], g)

\* Faulty variant: an item that has a parent is taken over.
add_item_reparent(st, g, col) ==
    IF col \in Tables THEN Err(st)
    ELSE IF _check_unlocked(st, g) = "abort" THEN Abort(st)
    ELSE IF _check_unlocked(st, g) = "error" THEN Err(st)
    ELSE IF st.item_names[g][ItemName(col)] # NULL THEN Err(st)
    ELSE _mark_dirty_columns([st EXCEPT
                                !.parent[col] = g,
                                !.index[col] = Len(st.children[g]),
                                !.children[g] = Append(st.children[g], col),
                                !.item_names[g][ItemName(col)] = col], g)

\* column_group::add_item
add_item(st, g, col) ==
    IF col \in Tables THEN Err(st)
    ELSE LET chk == _check_unlocked(st, g)
    IN IF chk = "abort" THEN Abort(st)
       ELSE IF chk = "error" THEN Err(st)
       ELSE IF st.parent[col] # NULL THEN Err(st)
       ELSE IF st.item_names[g][ItemName(col)] # NULL THEN Err(st)
       ELSE LET st1 == [st EXCEPT
                          !.parent[col] = g,
                          !.index[col] = Len(st.children[g]),
                          !.children[g] = Append(st.children[g], col),
                          !.item_names[g][ItemName(col)] = col]
            IN _mark_dirty_columns(st1, g)

\* Faulty variant: the slot of the child is erased from the vector.
remove_item_erase(st, g, col, build) ==
    IF _check_unlocked(st, g) = "abort" THEN Abort(st)
    ELSE IF _check_unlocked(st, g) = "error" THEN Err(st)
    ELSE IF st.parent[col] # g THEN Err(st)
    ELSE _mark_dirty([st EXCEPT
                        !.children[g] = SelectSeq(@, LAMBDA y : y # col),
                        !.item_names[g][ItemName(col)] = NULL,
                        !.parent[col] = NULL], g)

\* column_group::remove_item
remove_item(st, g, col, build) ==
    LET chk == _check_unlocked(st, g)
    IN IF chk = "abort" THEN Abort(st)
       ELSE IF chk = "error" THEN Err(st)
       ELSE IF st.parent[col] # g THEN Err(st)
       ELSE LET slot == st.index[col] + 1
                inrange == slot \in 1..Len(st.children[g])
                holds == inrange /\ st.children[g][slot] = col
            IN IF ~inrange \/ (~holds /\ build = "debug") THEN Abort(st)
               ELSE LET st1 == [st EXCEPT
                                  !.children[g][slot] = NULL,
                                  !.item_names[g][ItemName(col)] = NULL,
                                  !.parent[col] = NULL]
                    IN _mark_dirty(st1, g)

\* column_group::_cleanup: the compaction loop from slot i on, pos the next
\* free slot (both 1-based here; _index stays 0-based).
RECURSIVE CleanupLoop(_, _, _, _, _, _), GroupCleanup(_, _, _, _)

\* Faulty variant: a child that is moved down keeps its old _index.
CleanupLoopStaleIndex(st, g, i, pos, build, depth) ==
    IF i > Len(st.children[g])
    THEN Ok([st EXCEPT !.children[g] = SubSeq(st.children[g], 1, pos - 1),
                       !.dirty[g] = FALSE])
    ELSE LET c == st.children[g][i]
             st1 == IF pos < i THEN [st EXCEPT !.children[g][pos] = c] ELSE st
         IN IF c = NULL THEN CleanupLoop(st, g, i + 1, pos, build, depth)
            ELSE With(IF c \in Groups
                      THEN GroupCleanup(st1, c, build, depth - 1)
                      ELSE Ok(st1),
                      LAMBDA sub :
                        IF sub.res # "ok" THEN sub
                        ELSE CleanupLoop(sub.st, g, i + 1, pos + 1, build, depth))

CleanupLoop(st, g, i, pos, build, depth) ==
    IF i > Len(st.children[g])
    THEN Ok([st EXCEPT !.children[g] = SubSeq(st.children[g], 1, pos - 1),
                       !.dirty[g] = FALSE])
    ELSE LET c == st.children[g][i]
             asserts == st.children[g][pos] = NULL /\ st.index[c] = i - 1
             st1 == IF pos < i
                    THEN [st EXCEPT !.children[g][pos] = c, !.index[c] = pos - 1]
                    ELSE st
         IN IF c = NULL THEN CleanupLoop(st, g, i + 1, pos, build, depth)
            ELSE IF pos < i /\ ~asserts /\ build = "debug" THEN Abort(st)
            ELSE With(IF c \in Groups
                      THEN GroupCleanup(st1, c, build, depth - 1)
                      ELSE Ok(st1),
                      LAMBDA sub :
                        IF sub.res # "ok" THEN sub
                        ELSE CleanupLoop(sub.st, g, i + 1, pos + 1, build, depth))

GroupCleanup(st, g, build, depth) ==
    IF ~st.dirty[g] THEN Ok(st)
    ELSE IF depth = 0 THEN Abort(st)
    ELSE CleanupLoop(st, g, 1, 1, build, depth)

\* column_group::visit: the items in visiting order (<<"diverge">> when the
\* recursion never ends).
RECURSIVE Visit(_, _, _), VisitChildren(_, _, _, _)

\* Faulty variant: the group is visited after its children.
VisitGroupLast(st, i, fuel) ==
    IF i \in Columns THEN <<i>>
    ELSE IF fuel = 0 THEN <<"diverge">>
    ELSE VisitChildren(st, st.children[i], 1, fuel - 1) \o <<i>>

Visit(st, i, fuel) ==
    IF i \in Columns THEN <<i>>
    ELSE IF fuel = 0 THEN <<"diverge">>
    ELSE <<i>> \o VisitChildren(st, st.children[i], 1, fuel - 1)

VisitChildren(st, cs, k, fuel) ==
    IF k > Len(cs) THEN <<>>
    ELSE (IF cs[k] = NULL THEN <<>> ELSE Visit(st, cs[k], fuel))
         \o VisitChildren(st, cs, k + 1, fuel)

SelectColumns(s) == SelectSeq(s, LAMBDA x : x \in Columns)

\* output_table::_cleanup
TableCleanup(st, t, build) ==
    With(IF st.dirty[t]
         THEN GroupCleanup([st EXCEPT !.dirty_columns[t] = TRUE], t, build, Fuel)
         ELSE Ok(st),
         LAMBDA cl :
           IF cl.res # "ok" \/ ~cl.st.dirty_columns[t] THEN cl
           ELSE With(Visit(cl.st, t, Fuel), LAMBDA seen :
                  IF \E k \in 1..Len(seen) : seen[k] = "diverge"
                  THEN Abort(cl.st)
                  ELSE Ok([cl.st EXCEPT !.columns[t] = SelectColumns(seen),
                                        !.dirty_columns[t] = FALSE])))

\* column_group::_cleanup is virtual: a table cleans its column cache too.
_cleanup(st, g, build) ==
    IF g \in Tables THEN TableCleanup(st, g, build)
    ELSE GroupCleanup(st, g, build, Fuel)

\* A string is the sequence of its characters; the names of the items are
\* one character long.
NameChars(n) == <<n>>

\* The default separator of path_name, the separator of get_item.
Slash == <<"/">>

RECURSIVE output_name_all(_, _, _, _, _)
\* Faulty variant: the walk to the ancestors does not stop below the table.
output_name_all(st, item, level, sep, fuel) ==
    (IF st.parent[item] = NULL THEN <<>>
     ELSE IF fuel = 0 THEN <<"diverge">>
     ELSE output_name_all(st, st.parent[item], level + 1, sep, fuel - 1))
    \o NameChars(ItemName(item)) \o (IF level > 0 THEN sep ELSE <<>>)

\* output_name: the characters written to the stream (the character
\* "diverge" when the recursion never ends).
RECURSIVE output_name(_, _, _, _, _)
output_name(st, item, level, sep, fuel) ==
    (IF st.parent[item] = NULL \/ st.parent[item] \in Tables THEN <<>>
     ELSE IF fuel = 0 THEN <<"diverge">>
     ELSE output_name(st, st.parent[item], level + 1, sep, fuel - 1))
    \o NameChars(ItemName(item)) \o (IF level > 0 THEN sep ELSE <<>>)

\* column_item::path_name
path_name(st, item, sep) == output_name(st, item, 0, sep, Fuel)

\* boost::split(inames, path, is_any_of("/")): the tokens between the
\* separators, empty ones included.
RECURSIVE Split(_)
Split(s) ==
    LET seps == {k \in 1..Len(s) : s[k] = "/"}
    IN IF seps = {} THEN <<s>>
       ELSE LET k == CHOOSE j \in seps : \A i \in seps : j <= i
            IN <<SubSeq(s, 1, k - 1)>> \o Split(SubSeq(s, k + 1, Len(s)))

\* The outcome of a lookup: the item returned, or an error.
Found(st, x) == [st |-> st, res |-> "ok", hooks |-> <<>>, item |-> x]
NotFound(st) == [st |-> st, res |-> "error", hooks |-> <<>>, item |-> NULL]

\* Faulty variant: a name that is not on the map yields the group itself.
GetWalkLenient(st, ret, inames, k) == Found(st, ret)

\* column_group::get_item(const std::vector<string>&): the loop from the
\* k-th name on; at() throws for a name that is not on the map.
RECURSIVE GetWalk(_, _, _, _)
GetWalk(st, ret, inames, k) ==
    IF k > Len(inames) THEN Found(st, ret)
    ELSE IF ret \notin GroupLike THEN NotFound(st)
    ELSE LET hits == {n \in Names : /\ NameChars(n) = inames[k]
                                     /\ st.item_names[ret][n] # NULL}
         IN IF hits = {} THEN NotFound(st)
            ELSE GetWalk(st, st.item_names[ret][CHOOSE n \in hits : TRUE],
                         inames, k + 1)

\* column_group::get_item(const string&)
get_item(st, g, path) == GetWalk(st, g, Split(path), 1)

-----------------------------------------------------------------------------
(* Bindings                                                                *)

RemoveFrom(list, b) == SelectSeq(list, LAMBDA x : x # b)

\* A slot of the heap that holds no binding.
NoBinding == [file |-> NULL, table |-> NULL, enabled |-> FALSE]

FreeIds(st) == {b \in BindingIds : st.binding[b] = NoBinding}
NewId(st) == CHOOSE b \in FreeIds(st) : \A c \in FreeIds(st) : b <= c

\* output_binding::output_binding: inserted at the end of both lists.
NewBinding(st, f, t) ==
    LET b == NewId(st)
    IN [st EXCEPT !.binding[b] = [file |-> f, table |-> t, enabled |-> TRUE],
                  !.tables[f] = Append(st.tables[f], b),
                  !.files[t] = Append(st.files[t], b)]

\* Faulty variant: the destructor erases the binding from the list of the
\* file only.
DeleteBindingHalf(st, b) ==
    [st EXCEPT !.tables[st.binding[b].file] = RemoveFrom(@, b),
               !.binding[b] = NoBinding]

\* output_binding::~output_binding: erased from the lists of the file and
\* the table its fields name.
DeleteBinding(st, b) ==
    LET f == st.binding[b].file
        t == st.binding[b].table
    IN [st EXCEPT !.tables[f] = RemoveFrom(st.tables[f], b),
                  !.files[t] = RemoveFrom(st.files[t], b),
                  !.binding[b] = NoBinding]

\* The null pointer to a binding (ids of allocated bindings start at 1).
NoId == 0

\* output_binding::find(list&, output_file*)
FindFile(st, list, f) ==
    LET hits == {k \in 1..Len(list) : st.binding[list[k]].file = f}
    IN IF hits = {} THEN NoId
       ELSE list[CHOOSE k \in hits : \A j \in hits : k <= j]

\* output_binding::find(list&, output_table*)
FindTable(st, list, t) ==
    LET hits == {k \in 1..Len(list) : st.binding[list[k]].table = t}
    IN IF hits = {} THEN NoId
       ELSE list[CHOOSE k \in hits : \A j \in hits : k <= j]

\* output_binding::unbind_all on the list of table t / of file f: delete the
\* front binding until the list is empty (it never is when a front binding
\* does not name this endpoint: the loop hangs).
\* Faulty variant: only the front binding of the file is deleted.
UnbindFrontOfFile(st, f, fuel) ==
    IF st.tables[f] = <<>> THEN Ok(st)
    ELSE Ok(DeleteBinding(st, Head(st.tables[f])))

RECURSIVE UnbindAllOfTable(_, _, _), UnbindAllOfFile(_, _, _)
UnbindAllOfTable(st, t, fuel) ==
    IF st.files[t] = <<>> THEN Ok(st)
    ELSE IF fuel = 0 THEN Abort(st)
    ELSE UnbindAllOfTable(DeleteBinding(st, Head(st.files[t])), t, fuel - 1)

UnbindAllOfFile(st, f, fuel) ==
    IF st.tables[f] = <<>> THEN Ok(st)
    ELSE IF fuel = 0 THEN Abort(st)
    ELSE UnbindAllOfFile(DeleteBinding(st, Head(st.tables[f])), f, fuel - 1)

\* output_table::bind
table_bind(st, t, f) ==
    IF _check_unlocked(st, t) # "ok" THEN Err(st)
    ELSE IF FindFile(st, st.files[t], f) # NoId THEN Ok(st)
    ELSE Ok(NewBinding(st, f, t))

\* The conversion of a pointer to a binding to bool.  unbind converts b
\* after delete b: the pointer is not changed by the delete expression, so
\* the value converted is the address the lookup returned.
PtrToBool(b) == b # NoId

\* Faulty variant: the value returned is the outcome of a second lookup,
\* made after the binding is deleted.
table_unbind_lookup_after(st, t, f) ==
    IF _check_unlocked(st, t) # "ok" THEN Err(st)
    ELSE LET b == FindFile(st, st.files[t], f)
         IN IF b = NoId THEN Returns(st, FALSE)
            ELSE With(DeleteBinding(st, b), LAMBDA s2 :
                   Returns(s2, FindFile(s2, s2.files[t], f) # NoId))

\* output_table::unbind
table_unbind(st, t, f) ==
    IF _check_unlocked(st, t) # "ok" THEN Err(st)
    ELSE LET b == FindFile(st, st.files[t], f)
         IN IF b = NoId THEN Returns(st, PtrToBool(b))
            ELSE Returns(DeleteBinding(st, b), PtrToBool(b))

\* output_table::unbind_all
table_unbind_all(st, t) ==
    IF _check_unlocked(st, t) # "ok" THEN Err(st)
    ELSE UnbindAllOfTable(st, t, MaxBindings + 1)

\* Faulty variant: a binding object is made without the lookup.
file_bind_always(st, f, t) == Ok(NewBinding(st, f, t))

\* output_file::bind
file_bind(st, f, t) ==
    IF FindTable(st, st.tables[f], t) # NoId THEN Ok(st)
    ELSE Ok(NewBinding(st, f, t))

\* output_file::unbind
file_unbind(st, f, t) ==
    LET b == FindTable(st, st.tables[f], t)
    IN IF b = NoId THEN Returns(st, PtrToBool(b))
       ELSE Returns(DeleteBinding(st, b), PtrToBool(b))

\* output_file::unbind_all
file_unbind_all(st, f) == UnbindAllOfFile(st, f, MaxBindings + 1)

-----------------------------------------------------------------------------
(* Sinks                                                                   *)

\* F1 is a text file in csvtab format, F2 an HDF5 location opened in truncate
\* mode, F3 and F4 are HDF5 locations opened in append mode, F5 is a text
\* file in csvrel format and F6 a csvtab text sink on a stream that is not
\* seekable (a pipe: ftell returns -1).
FileKind(f) ==
    IF f \in {"F1", "F6"} THEN "csvtab" ELSE IF f = "F5" THEN "csvrel" ELSE "hdf5"
Seekable(f) == f # "F6"
FileMode(f) == IF f \in {"F3", "F4"} THEN "append" ELSE "truncate"
Hdf5Files == {f \in Files : FileKind(f) = "hdf5"}

\* sizeof / alignof of the column types: c1 is column<int>, c2 is
\* column<double>, c3 is column<string> with maxlen 7.
ColSize(c) == CASE c = "c1" -> 4 [] c = "c2" -> 8 [] c = "c3" -> 8
ColAlign(c) == CASE c = "c1" -> 4 [] c = "c2" -> 8 [] c = "c3" -> 1

\* Faulty variant: the position is rounded down to a multiple of al.
__aligned_down(pos, al) == al * (pos \div al)

\* __aligned
__aligned(pos, al) == al * ((pos + al - 1) \div al)

\* The offset of column i (1-based) of the flat column sequence cols, as the
\* loops of table_handler::table_handler and make_row compute it.
RECURSIVE ColPos(_, _)
ColPos(cols, i) ==
    IF i = 1 THEN 0
    ELSE __aligned(ColPos(cols, i - 1) + ColSize(cols[i - 1]), ColAlign(cols[i]))

\* The I/O faults the HDF5 library can raise during a row append.
NoFault == [file |-> NULL, how |-> "none"]
IOFaults == {NoFault} \cup
            {[file |-> f, how |-> h] : f \in Hdf5Files, h \in {"extend", "write"}}

\* ftell on the stream of f: the position (in lines written), -1 when the
\* stream is not seekable.
ftell(st, f) == IF Seekable(f) THEN Len(st.stream[f]) ELSE -1

\* The line of a header or a row: lead is what a csvrel row starts with.
Line(kind, t, lead, cells) ==
    [kind |-> kind, table |-> t, lead |-> lead, cells |-> cells]

\* Faulty variant: the header is written whatever the position.
c_file_prolog_header(st, f, t, build) ==
    IF t \in st.fmtr[f] THEN Ok(st)
    ELSE LET st1 == [st EXCEPT !.fmtr[f] = @ \cup {t}]
         IN IF FileKind(f) = "csvrel" THEN Ok(st1)
            ELSE With(TableCleanup(st1, t, build), LAMBDA cl :
                   IF cl.res # "ok" THEN cl
                   ELSE Ok([cl.st EXCEPT !.stream[f] = Append(@,
                             Line("header", t, <<>>,
                                  [k \in 1..Len(cl.st.columns[t]) |->
                                      ItemName(cl.st.columns[t][k])]))]))

\* output_c_file::output_prolog with csvtab_formatter::prolog and
\* csvrel_formatter::prolog
c_file_prolog(st, f, t, build) ==
    IF t \in st.fmtr[f] THEN Ok(st)
    ELSE LET st1 == [st EXCEPT !.fmtr[f] = @ \cup {t}]
         IN IF FileKind(f) = "csvrel" THEN Ok(st1)
            ELSE IF ~(ftell(st1, f) = -1 \/ ftell(st1, f) = 0) THEN Ok(st1)
            ELSE With(TableCleanup(st1, t, build), LAMBDA cl :
                   IF cl.res # "ok" THEN cl
                   ELSE Ok([cl.st EXCEPT !.stream[f] = Append(@,
                             Line("header", t, <<>>,
                                  [k \in 1..Len(cl.st.columns[t]) |->
                                      ItemName(cl.st.columns[t][k])]))]))

\* output_c_file::output_row with csvtab_formatter::row and
\* csvrel_formatter::row
c_file_row(st, f, t, build) ==
    IF t \notin st.fmtr[f] THEN Err(st)
    ELSE With(TableCleanup(st, t, build), LAMBDA cl :
           IF cl.res # "ok" THEN cl
           ELSE Ok([cl.st EXCEPT !.stream[f] = Append(@,
                     Line("row", t,
                          IF FileKind(f) = "csvrel" THEN <<ItemName(t)>> ELSE <<>>,
                          [k \in 1..Len(cl.st.columns[t]) |->
                              cl.st.val[cl.st.columns[t][k]]]))]))

\* output_c_file::output_epilog
c_file_epilog(st, f, t) ==
    IF t \notin st.fmtr[f] THEN Err(st)
    ELSE Ok([st EXCEPT !.fmtr[f] = @ \ {t}])

\* table_handler::table_handler, first loop: the running size after the
\* first i columns, and the largest alignment (align starts at 1).
RECURSIVE SizeLoop(_, _)
SizeLoop(cols, i) ==
    IF i = 0 THEN 0
    ELSE (IF i > 1 THEN __aligned(SizeLoop(cols, i - 1), ColAlign(cols[i]))
          ELSE SizeLoop(cols, i - 1)) + ColSize(cols[i])

RecAlign(cols) ==
    CHOOSE a \in {1} \cup {ColAlign(cols[k]) : k \in 1..Len(cols)} :
       \A k \in 1..Len(cols) : ColAlign(cols[k]) <= a

\* The size of the record: the running size is rounded to the alignment of
\* the first column.
RecSize(cols) ==
    IF Len(cols) > 0
    THEN __aligned(SizeLoop(cols, Len(cols)), ColAlign(cols[1]))
    ELSE 0

\* No handler in the map; no dataset of that name at the location.
NoHandler == [made |-> FALSE, colpos |-> <<>>, type |-> <<>>, open |-> FALSE,
              size |-> 0, align |-> 1]
NoDataset == [exists |-> FALSE, type |-> <<>>, rows |-> <<>>]

\* output_hdf5::table_handler::table_handler
NewHandler(cols) ==
    [made |-> TRUE,
     colpos |-> [k \in 1..Len(cols) |-> ColPos(cols, k)],
     type |-> [k \in 1..Len(cols) |->
                 <<ItemName(cols[k]), ColPos(cols, k), ColSize(cols[k])>>],
     open |-> FALSE,
     size |-> RecSize(cols),
     align |-> RecAlign(cols)]

\* output_hdf5::handler
hdf5_handler(st, f, t, build) ==
    IF st.handler[f][t].made THEN Ok(st)
    ELSE With(TableCleanup(st, t, build), LAMBDA cl :
           IF cl.res # "ok" THEN cl
           ELSE Ok([cl.st EXCEPT !.handler[f][t] = NewHandler(cl.st.columns[t])]))

\* Faulty variant: the records of a dataset found at the location are kept.
create_dataset_keep(st, f, t) ==
    [st EXCEPT !.dataset[f][ItemName(t)] =
                   [exists |-> TRUE, type |-> st.handler[f][t].type,
                    rows |-> st.dataset[f][ItemName(t)].rows],
               !.handler[f][t].open = TRUE]

\* output_hdf5::table_handler::create_dataset
create_dataset(st, f, t) ==
    [st EXCEPT !.dataset[f][ItemName(t)] =
                   [exists |-> TRUE, type |-> st.handler[f][t].type, rows |-> <<>>],
               !.handler[f][t].open = TRUE]

\* Faulty variant: append mode is treated as truncate mode.
hdf5_prolog_truncates(st, f, t, build) ==
    With(hdf5_handler(st, f, t, build), LAMBDA th :
      IF th.res # "ok" THEN th ELSE Ok(create_dataset(th.st, f, t)))

\* output_hdf5::output_prolog
hdf5_prolog(st, f, t, build) ==
    With(hdf5_handler(st, f, t, build), LAMBDA th :
      LET s1 == th.st
          n == ItemName(t)
      IN IF th.res # "ok" THEN th
         ELSE IF FileMode(f) = "append" /\ s1.dataset[f][n].exists
         THEN IF s1.handler[f][t].type # s1.dataset[f][n].type THEN Err(s1)
              ELSE Ok([s1 EXCEPT !.handler[f][t].open = TRUE])
         ELSE Ok(create_dataset(s1, f, t)))

\* output_hdf5::table_handler::make_row: whether assert(pos == colpos[i])
\* holds for every column, and the (offset, value) pairs copied into the
\* buffer.
make_row(st, f, t) ==
    LET cols == st.columns[t]
        cp == st.handler[f][t].colpos
    IN [asserts |-> \A k \in 1..Len(cols) : k <= Len(cp) /\ cp[k] = ColPos(cols, k),
        buffer |-> [k \in 1..Len(cols) |-> <<ColPos(cols, k), st.val[cols[k]]>>]]

\* Faulty variant: the record is written at offset 0 of the extended dataset.
AppendFirst(rows, buffer) == <<buffer>> \o rows

\* output_hdf5::table_handler::append_row on the open dataset: extend by one
\* record, then write the buffer at the old extent.
AppendAt(rows, buffer) ==
    LET ext == Len(rows)
        extended == Append(rows, <<>>)
    IN [extended EXCEPT ![ext + 1] = buffer]

\* output_hdf5::output_row
hdf5_row(st, f, t, build, io) ==
    With(hdf5_handler(st, f, t, build), LAMBDA th :
      IF th.res # "ok" THEN th
      ELSE With(TableCleanup(th.st, t, build), LAMBDA cl :
        IF cl.res # "ok" THEN cl
        ELSE With(make_row(cl.st, f, t), LAMBDA made :
          LET s2 == cl.st
              n == ItemName(t)
          IN IF ~made.asserts /\ build = "debug" THEN Abort(s2)
             ELSE IF ~s2.handler[f][t].open \/ ~s2.dataset[f][n].exists THEN Err(s2)
             ELSE IF io.file = f /\ io.how = "extend" THEN Err(s2)
             ELSE IF io.file = f /\ io.how = "write"
             THEN Err([s2 EXCEPT !.dataset[f][n].rows = Append(@, <<>>)])
             ELSE Ok([s2 EXCEPT !.dataset[f][n].rows = AppendAt(@, made.buffer)]))))

\* output_hdf5::output_epilog
hdf5_epilog(st, f, t) == Ok([st EXCEPT !.handler[f][t] = NoHandler])

\* The virtual hooks of output_file.
output_prolog(st, f, t, build) ==
    IF FileKind(f) = "hdf5" THEN hdf5_prolog(st, f, t, build)
    ELSE c_file_prolog(st, f, t, build)

output_row(st, f, t, build, io) ==
    IF FileKind(f) = "hdf5" THEN hdf5_row(st, f, t, build, io)
    ELSE c_file_row(st, f, t, build)

output_epilog(st, f, t) ==
    IF FileKind(f) = "hdf5" THEN hdf5_epilog(st, f, t)
    ELSE c_file_epilog(st, f, t)

-----------------------------------------------------------------------------
(* Tables                                                                  *)

\* Faulty variants of the test on the binding's flag: no hook skips a
\* binding; every hook skips a disabled binding.
SkipsNone(b, which) == FALSE
SkipsDisabled(b, which) == ~b.enabled

\* The test `if(b->enabled)` of emit_row: the row hook skips a disabled
\* binding; the loops of prolog and epilog have no such test.
Skips(b, which) == which = "row" /\ ~b.enabled

\* The loops of prolog, emit_row and epilog over bindings(), a copy of the
\* table's list taken before the first hook: hook `which` of the file of
\* each binding from position k on (emit_row: of each enabled binding), up
\* to the first hook that does not return.
RECURSIVE RunHooks(_, _, _, _, _, _, _, _)
RunHooks(st, list, k, t, which, build, io, done) ==
    IF k > Len(list) THEN [st |-> st, res |-> "ok", hooks |-> done]
    ELSE LET b == st.binding[list[k]]
             f == b.file
             now == Append(done, <<f, which>>)
         IN IF Skips(b, which)
            THEN RunHooks(st, list, k + 1, t, which, build, io, done)
            ELSE With(CASE which = "prolog" -> output_prolog(st, f, t, build)
                        [] which = "row" -> output_row(st, f, t, build, io)
                        [] which = "epilog" -> output_epilog(st, f, t),
                      LAMBDA r :
                        IF r.res # "ok"
                        THEN [st |-> r.st, res |-> r.res, hooks |-> now]
                        ELSE RunHooks(r.st, list, k + 1, t, which, build, io, now))

\* output_table::prolog
prolog(st, t, build) ==
    With(TableCleanup(st, t, build), LAMBDA cl :
      IF cl.res # "ok" THEN cl
      ELSE With(RunHooks(cl.st, cl.st.files[t], 1, t, "prolog", build, NoFault, <<>>),
                LAMBDA r :
                  IF r.res # "ok" THEN r ELSE [r EXCEPT !.st.locked[t] = TRUE]))

\* Faulty variants of emit_row: without the test of the lock; without the
\* test of the table's enabled flag.
emit_row_nolock(st, t, build, io) ==
    IF st.files[t] = <<>> THEN Ok(st)
    ELSE IF ~st.en[t] THEN Ok(st)
    ELSE RunHooks(st, st.files[t], 1, t, "row", build, io, <<>>)

emit_row_noen(st, t, build, io) ==
    IF st.files[t] = <<>> THEN Ok(st)
    ELSE IF ~st.locked[t] THEN Err(st)
    ELSE RunHooks(st, st.files[t], 1, t, "row", build, io, <<>>)

\* Faulty variant of emit_row: a failed row hook releases the lock.
emit_row_unlocks(st, t, build, io) ==
    IF st.files[t] = <<>> THEN Ok(st)
    ELSE IF ~st.locked[t] THEN Err(st)
    ELSE IF ~st.en[t] THEN Ok(st)
    ELSE With(RunHooks(st, st.files[t], 1, t, "row", build, io, <<>>), LAMBDA r :
           IF r.res = "error" THEN [r EXCEPT !.st.locked[t] = FALSE] ELSE r)

\* output_table::emit_row
emit_row(st, t, build, io) ==
    IF st.files[t] = <<>> THEN Ok(st)
    ELSE IF ~st.locked[t] THEN Err(st)
    ELSE IF ~st.en[t] THEN Ok(st)
    ELSE RunHooks(st, st.files[t], 1, t, "row", build, io, <<>>)

\* Faulty variant of epilog: the lock is not cleared.
epilog_keeps_lock(st, t) ==
    RunHooks(st, st.files[t], 1, t, "epilog", "debug", NoFault, <<>>)

\* output_table::epilog
epilog(st, t) ==
    LET st1 == [st EXCEPT !.locked[t] = FALSE]
    IN RunHooks(st1, st1.files[t], 1, t, "epilog", "debug", NoFault, <<>>)

\* output_table::set_enabled
set_enabled(st, t, v) == Ok([st EXCEPT !.en[t] = v])

\* output_table::size (and operator[](size_t)): cleanup, then the cache.
table_size(st, t, build) == TableCleanup(st, t, build)

\* output_table::get
get(st, name) == st.registry[name]

\* column_item::column_item and the constructors of its subclasses: the
\* fields of a new item i; with a parent p the item adds itself to it, and
\* an exception there leaves no object.
Fresh(st, i) ==
    [st EXCEPT !.live = @ \cup {i}, !.parent[i] = NULL, !.index[i] = 0]

FreshGroup(st, g) ==
    [Fresh(st, g) EXCEPT !.children[g] = <<>>,
                         !.item_names[g] = [n \in Names |-> NULL],
                         !.dirty[g] = FALSE]

new_item(st, i, p) ==
    LET st1 == IF i \in Groups THEN FreshGroup(st, i)
               ELSE [Fresh(st, i) EXCEPT !.val[i] = 0]
    IN IF p = NULL THEN Ok(st1)
       ELSE With(add_item(st1, p, i), LAMBDA r :
              IF r.res = "ok" THEN r ELSE [r EXCEPT !.st = st])

\* Faulty variant of the constructor: the registry is not consulted.
new_table_nocheck(st, t) ==
    Ok([FreshGroup(st, t) EXCEPT
          !.dirty_columns[t] = FALSE, !.columns[t] = <<>>,
          !.en[t] = TRUE, !.locked[t] = FALSE, !.files[t] = <<>>,
          !.registry[ItemName(t)] = t,
          !.all_tables = @ \cup {t}])

\* output_table::output_table
new_table(st, t) ==
    IF st.registry[ItemName(t)] # NULL THEN Err(st)
    ELSE Ok([FreshGroup(st, t) EXCEPT
               !.dirty_columns[t] = FALSE, !.columns[t] = <<>>,
               !.en[t] = TRUE, !.locked[t] = FALSE, !.files[t] = <<>>,
               !.registry[ItemName(t)] = t,
               !.all_tables = @ \cup {t}])

\* column_group::~column_group, from child slot k on: _check_unlocked (in a
\* destructor table() is column_item::table, which starts at the parent),
\* then remove_item of every child still attached.  An exception that
\* leaves a destructor ends the process.
RECURSIVE DetachChildren(_, _, _, _)
DetachChildren(st, g, k, build) ==
    IF k > Len(st.children[g]) THEN Ok(st)
    ELSE LET c == st.children[g][k]
         IN IF c = NULL THEN DetachChildren(st, g, k + 1, build)
            ELSE IF CheckOwner(st, BaseTableOf(st, g)) # "ok" THEN Abort(st)
            ELSE IF st.parent[c] # g THEN Abort(st)
            ELSE With(_mark_dirty([st EXCEPT
                                     !.children[g][k] = NULL,
                                     !.item_names[g][ItemName(c)] = NULL,
                                     !.parent[c] = NULL], g),
                      LAMBDA md :
                        IF md.res # "ok" THEN md
                        ELSE DetachChildren(md.st, g, k + 1, build))

\* Faulty variant: the destructor of a group leaves its children alone.
group_dtor_none(st, g, build) == Ok(st)

group_dtor(st, g, build) ==
    IF CheckOwner(st, BaseTableOf(st, g)) # "ok" THEN Abort(st)
    ELSE DetachChildren(st, g, 1, build)

\* column_item::~column_item
item_dtor(st, i, build) ==
    IF st.parent[i] = NULL THEN Ok([st EXCEPT !.live = @ \ {i}])
    ELSE With(remove_item(st, st.parent[i], i, build), LAMBDA r :
           IF r.res # "ok" THEN Abort(r.st)
           ELSE Ok([r.st EXCEPT !.live = @ \ {i}]))

\* delete of a column or a group: ~column_group (groups), ~column_item.
delete_item(st, i, build) ==
    With(IF i \in Groups THEN group_dtor(st, i, build) ELSE Ok(st), LAMBDA g :
      IF g.res # "ok" THEN g ELSE item_dtor(g.st, i, build))

\* output_table::~output_table, then the base class destructors.
delete_table(st, t, build) ==
    With(UnbindAllOfTable(st, t, MaxBindings + 1), LAMBDA ub :
      IF ub.res # "ok" THEN ub
      ELSE With(group_dtor([ub.st EXCEPT !.registry[ItemName(t)] = NULL,
                                         !.all_tables = @ \ {t}], t, build),
                LAMBDA g :
                  IF g.res # "ok" THEN g ELSE item_dtor(g.st, t, build)))

\* output_file::~output_file
delete_file(st, f) ==
    With(UnbindAllOfFile(st, f, MaxBindings + 1), LAMBDA ub :
      IF ub.res # "ok" THEN ub
      ELSE Ok([ub.st EXCEPT !.flive = @ \ {f}]))

-----------------------------------------------------------------------------
(* What a sink holds for a table, the history of emit_row                  *)

RECURSIVE RowsOf(_, _)
RowsOf(lines, t) ==
    IF lines = <<>> THEN <<>>
    ELSE (IF Head(lines).kind = "row" /\ Head(lines).table = t
          THEN <<Head(lines).cells>> ELSE <<>>) \o RowsOf(Tail(lines), t)

\* The rows file f holds for table t: the row lines of a text stream, the
\* values of the records of the HDF5 dataset named after the table.
Received(st, f, t) ==
    IF FileKind(f) = "hdf5"
    THEN IF ~st.dataset[f][ItemName(t)].exists THEN <<>>
         ELSE LET rows == st.dataset[f][ItemName(t)].rows
              IN [k \in 1..Len(rows) |->
                    [j \in 1..Len(rows[k]) |-> rows[k][j][2]]]
    ELSE RowsOf(st.stream[f], t)

\* The values of the columns of table t, in flat column order.
Snapshot(st, t) == [k \in 1..Len(st.columns[t]) |-> st.val[st.columns[t][k]]]

\* The files of the enabled bindings of table t.
EnabledFiles(st, t) ==
    {st.binding[st.files[t][k]].file :
        k \in {j \in 1..Len(st.files[t]) : st.binding[st.files[t][j]].enabled}}

BoundFiles(st, t) ==
    {st.binding[st.files[t][k]].file : k \in 1..Len(st.files[t])}

\* History kept at prolog: a new session of table t starts; base is the
\* number of rows each file holds for it.
SentAtProlog(r, t) ==
    [r EXCEPT !.st.sent[t] = [f \in Files |->
        [ok |-> TRUE, base |-> Len(Received(r.st, f, t)), rows |-> <<>>]]]

\* History kept at emit_row: `before` is the state at the call, r its
\* outcome.  A call that reaches the loop over the bindings takes one
\* snapshot for every enabled binding; ok records that no call of the
\* session has failed.
SentAtEmit(before, r, t) ==
    IF before.files[t] = <<>> \/ ~before.locked[t] \/ ~before.en[t] THEN r
    ELSE [r EXCEPT !.st.sent[t] = [f \in Files |->
            [ok |-> before.sent[t][f].ok /\ r.res = "ok",
             base |-> before.sent[t][f].base,
             rows |-> IF f \in EnabledFiles(before, t)
                      THEN Append(before.sent[t][f].rows, Snapshot(before, t))
                      ELSE before.sent[t][f].rows]]]

-----------------------------------------------------------------------------
(* Typed columns                                                           *)

\* Characters; NUL is the terminator of a C string.  Strings are sequences
\* of characters of length up to MaxStr (std::string may hold NUL).
MaxStr == 2
NUL == "NUL"
Chars == {"a", "b", NUL}
Strings == UNION {[1..n -> Chars] : n \in 0..MaxStr}

\* The limits (maxlen) of the bounded-string columns.
MaxLimit == 1
Limits == 0..MaxLimit

\* The double arguments of set(double): k stands for k/2.
MaxTwice == 3
Doubles == 0..MaxTwice

\* The kinds of basic_column: column<int>, column_ref<int>, computed<int>,
\* column<string> and column_ref<string>.
ArithKinds == {"column", "column_ref", "computed"}
StringKinds == {"string", "string_ref"}
NoColumn == [kind |-> "none", maxlen |-> 0, val |-> 0, str |-> <<>>]

\* std::string::substr(pos, n)
substr(v, pos, n) ==
    SubSeq(v, pos + 1, IF pos + n < Len(v) THEN pos + n ELSE Len(v))

\* column<T>::column, column_ref<T>::column_ref, computed<T>::computed with
\* T = int: the value is val, the referenced variable, or what func returns.
arith_column(kind, v) == [kind |-> kind, maxlen |-> 0, val |-> v, str |-> <<>>]

\* column<string>::column with an initial value (val(_v)); the constructors
\* without one leave val empty.  column_ref<string>::column_ref: the value
\* is the referenced string.
string_column(kind, maxlen, v) ==
    [kind |-> kind, maxlen |-> maxlen, val |-> 0, str |-> v]

\* column<string>::set_value
string_set_value(c, v) == [c EXCEPT !.str = substr(v, 0, c.maxlen)]

\* strlen of the C string s.c_str(): the characters before the first NUL.
strlen(v) ==
    IF \E i \in 1..Len(v) : v[i] = NUL
    THEN (CHOOSE i \in 1..Len(v) :
             v[i] = NUL /\ \A j \in 1..(i - 1) : v[j] # NUL) - 1
    ELSE Len(v)

\* strncpy(dest, src, n): the characters of src up to its terminator, at
\* most n, then NUL up to n bytes.
strncpy(v, n) == [i \in 1..n |-> IF i <= strlen(v) THEN v[i] ELSE NUL]

\* column<string>::copy, column_ref<string>::copy: the maxlen+1 bytes
\* written at ptr.
string_copy(c) == [strncpy(c.str, c.maxlen + 1) EXCEPT ![c.maxlen + 1] = NUL]

\* basic_column::is_arithmetic and its overrides.
is_arithmetic(c) == c.kind \in ArithKinds

\* The conversion of a double (d/2) to int.
int_of(d) == d \div 2

\* basic_column::set(double): column<T> overrides it, every other class
\* inherits the version that throws invalid_argument.
set_double(st, d) ==
    IF st.bcol.kind = "column"
    THEN Ok([st EXCEPT !.bcol.val = int_of(d)])
    ELSE Err(st)

\* basic_column::set(const string&): column<string> overrides it.
set_string(st, v) ==
    IF st.bcol.kind = "string"
    THEN Ok([st EXCEPT !.bcol = string_set_value(@, v)])
    ELSE Err(st)

-----------------------------------------------------------------------------
(* open_file                                                               *)

\* A parsed URL is its type, and the values of the variables open_mode and
\* format (Absent when the variable is not in the URL).
Absent == "absent"
UrlTypes == {"file", "hdf5", "stdout", "stderr", "ftp", "csv"}
UrlModes == {Absent, "truncate", "append", "overwrite"}
UrlFormats == {Absent, "csvtab", "csvrel", "cvstab", "json"}

\* The maps of the helper namespace and the defaults of tables.hh.
open_mode_map == [append |-> "append", truncate |-> "truncate"]
text_format_map == [cvstab |-> "csvtab", csvrel |-> "csvrel"]
default_open_mode == "truncate"
default_text_format == "csvrel"

\* proc_enum_var: [res, val]
proc_enum_var(v, valmap, defval) ==
    IF v # Absent
    THEN IF v \notin DOMAIN valmap THEN [res |-> "error", val |-> defval]
         ELSE [res |-> "ok", val |-> valmap[v]]
    ELSE [res |-> "ok", val |-> defval]

\* No file object: open_file has thrown.
NoFile == [class |-> "none", mode |-> Absent, format |-> Absent]
Throws(st) == [st |-> st, res |-> "error", hooks |-> <<>>, ret |-> NoFile]

\* tables::open_file on a URL that parse_url accepts.
open_file(st, type, uvars) ==
    LET mode == proc_enum_var(uvars.open_mode, open_mode_map, default_open_mode)
        format == proc_enum_var(uvars.format, text_format_map, default_text_format)
    IN IF mode.res # "ok" THEN Throws(st)
       ELSE IF format.res # "ok" THEN Throws(st)
       ELSE IF type = "file"
       THEN Returns(st, [class |-> "output_c_file", mode |-> mode.val,
                         format |-> format.val])
       ELSE IF type = "hdf5"
       THEN Returns(st, [class |-> "output_hdf5", mode |-> mode.val,
                         format |-> Absent])
       ELSE IF type = "stdout"
       THEN Returns(st, [class |-> "output_stdout", mode |-> Absent,
                         format |-> default_text_format])
       ELSE IF type = "stderr"
       THEN Returns(st, [class |-> "output_stderr", mode |-> Absent,
                         format |-> default_text_format])
       ELSE Throws(st)

-----------------------------------------------------------------------------
(* Initial states                                                          *)

-----------------------------------------------------------------------------
(* Progress bar                                                            *)

\* Bounds: the ticks expected, the length of the bar, the ticks of a call.
MaxN == 4
MaxB == 3
MaxTick == 5

\* A call that never returns.
Diverge(st) == [st |-> st, res |-> "diverge", hooks |-> <<>>]

\* No progress_bar has been constructed (B = 0).  marks counts the '#'
\* characters printed since the last start.
NoBar == [N |-> 0, i |-> 0, ni |-> 0, B |-> 0, l |-> 0, finished |-> FALSE,
          marks |-> 0]

\* progress_bar::progress_bar
progress_bar(b) == [NoBar EXCEPT !.B = b]

\* progress_bar::nexti
nexti(pb) == (pb.N * (pb.l + 1) + pb.B - 1) \div pb.B

\* The loop `while(i >= ni)` of adjustBar.  With N = 0 nexti() is 0 for
\* every l, so the test i >= ni holds at every iteration: once l has passed
\* B the loop prints nothing more and never ends.
RECURSIVE AdjustLoop(_)
AdjustLoop(pb) ==
    IF pb.i < pb.ni THEN [bar |-> pb, ends |-> TRUE]
    ELSE IF pb.N = 0 /\ pb.l > pb.B THEN [bar |-> pb, ends |-> FALSE]
    ELSE AdjustLoop([pb EXCEPT !.l = @ + 1,
                               !.ni = nexti([pb EXCEPT !.l = @ + 1]),
                               !.marks = IF pb.l + 1 <= pb.B THEN @ + 1 ELSE @])

\* progress_bar::adjustBar
adjustBar(st) ==
    With(AdjustLoop([st.bar EXCEPT !.i = IF @ > st.bar.N THEN st.bar.N ELSE @]),
         LAMBDA r :
           IF ~r.ends THEN Diverge([st EXCEPT !.bar = r.bar])
           ELSE Ok([st EXCEPT !.bar = [r.bar EXCEPT !.finished =
                                          IF r.bar.l = r.bar.B THEN TRUE ELSE @]]))

\* progress_bar::tick
tick(st, ticks) ==
    IF st.bar.finished THEN Ok(st)
    ELSE IF st.bar.i + ticks >= st.bar.ni
    THEN adjustBar([st EXCEPT !.bar.i = @ + ticks])
    ELSE Ok([st EXCEPT !.bar.i = @ + ticks])

\* progress_bar::complete
complete(st, ticks) ==
    IF st.bar.finished THEN Ok(st)
    ELSE IF ticks > st.bar.ni /\ ticks > st.bar.i THEN tick(st, ticks - st.bar.i)
    ELSE Ok(st)

\* progress_bar::finish
finish(st) ==
    IF st.bar.finished THEN Ok(st)
    ELSE IF st.bar.i < st.bar.N THEN tick(st, st.bar.N - st.bar.i)
    ELSE Ok(st)

\* progress_bar::start: the fields are reset, finished is not.
start(st, n) ==
    tick([st EXCEPT !.bar = [@ EXCEPT !.N = n, !.i = 0, !.l = 0, !.marks = 0,
                                      !.ni = nexti([st.bar EXCEPT !.N = n,
                                                                  !.l = 0])]],
         0)

TableNames == {ItemName(t) : t \in Tables}

\* The state after the items `its` (no two tables of one name) have been
\* constructed free-standing, with the output files `fs`.
Blank(its, fs) ==
    [live |-> its,
     parent |-> [i \in Items |-> NULL],
     index |-> [i \in Items |-> 0],
     children |-> [g \in GroupLike |-> <<>>],
     item_names |-> [g \in GroupLike |-> [n \in Names |-> NULL]],
     dirty |-> [g \in GroupLike |-> FALSE],
     dirty_columns |-> [t \in Tables |-> FALSE],
     columns |-> [t \in Tables |-> <<>>],
     val |-> [c \in Columns |-> 0],
     en |-> [t \in Tables |-> TRUE],
     locked |-> [t \in Tables |-> FALSE],
     files |-> [t \in Tables |-> <<>>],
     registry |-> [n \in TableNames |->
                     IF \E t \in its \cap Tables : ItemName(t) = n
                     THEN CHOOSE t \in its \cap Tables : ItemName(t) = n
                     ELSE NULL],
     all_tables |-> its \cap Tables,
     binding |-> [b \in BindingIds |-> NoBinding],
     tables |-> [f \in Files |-> <<>>],
     flive |-> fs,
     fmtr |-> [f \in Files |-> {}],
     stream |-> [f \in Files |-> <<>>],
     handler |-> [f \in Files |-> [t \in Tables |-> NoHandler]],
     dataset |-> [f \in Files |-> [n \in TableNames |-> NoDataset]],
     sent |-> [t \in Tables |-> [f \in Files |->
                 [ok |-> TRUE, base |-> 0, rows |-> <<>>]]],
     bcol |-> NoColumn,
     bar |-> NoBar]

\* The fields of the program are those of state st.
StateIs(st) ==
    /\ live = st.live
    /\ parent = st.parent
    /\ index = st.index
    /\ children = st.children
    /\ item_names = st.item_names
    /\ dirty = st.dirty
    /\ dirty_columns = st.dirty_columns
    /\ columns = st.columns
    /\ val = st.val
    /\ en = st.en
    /\ locked = st.locked
    /\ files = st.files
    /\ registry = st.registry
    /\ all_tables = st.all_tables
    /\ binding = st.binding
    /\ tables = st.tables
    /\ flive = st.flive
    /\ fmtr = st.fmtr
    /\ stream = st.stream
    /\ handler = st.handler
    /\ dataset = st.dataset
    /\ sent = st.sent
    /\ bcol = st.bcol
    /\ bar = st.bar

\* The program starts in state st.
InitFrom(st) ==
    /\ StateIs(st)
    /\ lastop = [op |-> "init", a |-> NULL, b |-> NULL, res |-> "ok", ret |-> NULL,
                 hooks |-> <<>>]

InitWith(its, fs) == InitFrom(Blank(its, fs))

Init == InitWith({}, Files)

-----------------------------------------------------------------------------
(* Actions: one per operation of the library                               *)

\* The step of an operation with outcome r.  A process that has aborted,
\* or that is in a call that never returns, takes no further step.
Commit(r, op, a, b) ==
    /\ lastop.res \notin {"abort", "diverge"}
    /\ live' = r.st.live
    /\ parent' = r.st.parent
    /\ index' = r.st.index
    /\ children' = r.st.children
    /\ item_names' = r.st.item_names
    /\ dirty' = r.st.dirty
    /\ dirty_columns' = r.st.dirty_columns
    /\ columns' = r.st.columns
    /\ val' = r.st.val
    /\ en' = r.st.en
    /\ locked' = r.st.locked
    /\ files' = r.st.files
    /\ registry' = r.st.registry
    /\ all_tables' = r.st.all_tables
    /\ binding' = r.st.binding
    /\ tables' = r.st.tables
    /\ flive' = r.st.flive
    /\ fmtr' = r.st.fmtr
    /\ stream' = r.st.stream
    /\ handler' = r.st.handler
    /\ dataset' = r.st.dataset
    /\ sent' = r.st.sent
    /\ bcol' = r.st.bcol
    /\ bar' = r.st.bar
    /\ lastop' = [op |-> op, a |-> a, b |-> b, res |-> r.res, hooks |-> r.hooks,
                  ret |-> IF "ret" \in DOMAIN r THEN r.ret ELSE NULL]

LiveTables == live \cap Tables
LiveGroups == live \cap GroupLike
LiveColumns == live \cap Columns

NewTable(t) ==
    /\ t \in Tables \ live
    /\ Commit(new_table(State, t), "new_table", t, NULL)

DeleteTable(t) ==
    /\ t \in LiveTables
    /\ \E build \in Builds :
          Commit(delete_table(State, t, build), "delete_table", t, NULL)

\* The parent argument of a constructor: a group, or none.
ParentArgs == GroupLike \cup {NULL}

NewItem(i, p) ==
    /\ i \in (Groups \cup Columns) \ live
    /\ p \in LiveGroups \cup {NULL}
    /\ p # NULL => Len(children[p]) < MaxChildren
    /\ Commit(new_item(State, i, p), "new_item", i, p)

DeleteItem(i) ==
    /\ i \in live \ Tables
    /\ \E build \in Builds :
          Commit(delete_item(State, i, build), "delete_item", i, NULL)

\* The children vector is capped at MaxChildren slots.
AddItem(g, col) ==
    /\ g \in LiveGroups
    /\ col \in live
    /\ Len(children[g]) < MaxChildren
    /\ Commit(add_item(State, g, col), "add_item", g, col)

RemoveItem(g, col) ==
    /\ g \in LiveGroups
    /\ col \in live
    /\ \E build \in Builds :
          Commit(remove_item(State, g, col, build), "remove_item", g, col)

\* column_group::items() on a group, output_table::size() on a table.
Cleanup(g) ==
    /\ g \in LiveGroups
    /\ \E build \in Builds :
          Commit(_cleanup(State, g, build), "cleanup", g, NULL)

SetValue(c, v) ==
    /\ c \in LiveColumns
    /\ v \in Values
    /\ Commit(Ok([State EXCEPT !.val[c] = v]), "set_value", c, NULL)

\* A basic column is constructed on its own (without a parent).
NewColumn(kind, v) ==
    /\ kind \in ArithKinds
    /\ Commit(Ok([State EXCEPT !.bcol = arith_column(kind, v)]),
              "new_column", v, kind)

NewStringColumn(kind, maxlen, v) ==
    /\ kind \in StringKinds
    /\ maxlen \in Limits
    /\ Commit(Ok([State EXCEPT !.bcol = string_column(kind, maxlen, v)]),
              "new_string_column", v, maxlen)

\* col.set_value(v) and col = v on a column<string>.
StringSetValue(v) ==
    /\ bcol.kind = "string"
    /\ Commit(Ok([State EXCEPT !.bcol = string_set_value(@, v)]),
              "string_set_value", v, NULL)

StringAssign(v) ==
    /\ bcol.kind = "string"
    /\ Commit(Ok([State EXCEPT !.bcol = string_set_value(@, v)]),
              "string_assign", v, NULL)

\* The virtual setters, called through basic_column.
SetDouble(d) ==
    /\ bcol.kind # "none"
    /\ Commit(set_double(State, d), "set_double", d, NULL)

SetString(v) ==
    /\ bcol.kind # "none"
    /\ Commit(set_string(State, v), "set_string", v, NULL)

OpenFile(type, uvars) ==
    /\ type \in UrlTypes
    /\ Commit(open_file(State, type, uvars), "open_file", type, uvars)

\* The progress bar: constructed once, then driven.
NewBar(b) ==
    /\ bar.B = 0
    /\ b \in 1..MaxB
    /\ Commit(Ok([State EXCEPT !.bar = progress_bar(b)]), "progress_bar", b, NULL)

Start(n) ==
    /\ bar.B > 0
    /\ n \in 0..MaxN
    /\ Commit(start(State, n), "start", n, NULL)

Tick(ticks) ==
    /\ bar.B > 0
    /\ ticks \in 0..MaxTick
    /\ Commit(tick(State, ticks), "tick", ticks, NULL)

Complete(ticks) ==
    /\ bar.B > 0
    /\ ticks \in 0..MaxTick
    /\ Commit(complete(State, ticks), "complete", ticks, NULL)

Finish ==
    /\ bar.B > 0
    /\ Commit(finish(State), "finish", 0, NULL)

SetEnabled(t, v) ==
    /\ t \in LiveTables
    /\ v \in BOOLEAN
    /\ Commit(set_enabled(State, t, v), "set_enabled", t, NULL)

\* Assignment to the public field output_binding::enabled.
SetBindingEnabled(b, v) ==
    /\ b \in BindingIds
    /\ binding[b] # NoBinding
    /\ v \in BOOLEAN
    /\ Commit(Ok([State EXCEPT !.binding[b].enabled = v]),
              "set_binding_enabled", binding[b].table, binding[b].file)

TableBind(t, f) ==
    /\ t \in LiveTables
    /\ f \in flive
    /\ FreeIds(State) # {}
    /\ Commit(table_bind(State, t, f), "table_bind", t, f)

TableUnbind(t, f) ==
    /\ t \in LiveTables
    /\ f \in flive
    /\ Commit(table_unbind(State, t, f), "table_unbind", t, f)

TableUnbindAll(t) ==
    /\ t \in LiveTables
    /\ Commit(table_unbind_all(State, t), "table_unbind_all", t, NULL)

FileBind(f, t) ==
    /\ t \in LiveTables
    /\ f \in flive
    /\ FreeIds(State) # {}
    /\ Commit(file_bind(State, f, t), "file_bind", t, f)

FileUnbind(f, t) ==
    /\ t \in LiveTables
    /\ f \in flive
    /\ Commit(file_unbind(State, f, t), "file_unbind", t, f)

FileUnbindAll(f) ==
    /\ f \in flive
    /\ Commit(file_unbind_all(State, f), "file_unbind_all", NULL, f)

DeleteFile(f) ==
    /\ f \in flive
    /\ Commit(delete_file(State, f), "delete_file", NULL, f)

Prolog(t) ==
    /\ t \in LiveTables
    /\ \E build \in Builds :
          Commit(SentAtProlog(prolog(State, t, build), t), "prolog", t, NULL)

\* The number of rows is capped: no file holds more than MaxRows rows.  A
\* fault is raised by a file that exists.
EmitRow(t) ==
    /\ t \in LiveTables
    /\ \A f \in Files : \A u \in Tables : Len(Received(State, f, u)) < MaxRows
    /\ \A f \in Files : Len(sent[t][f].rows) < MaxRows
    /\ \E build \in Builds, io \in {x \in IOFaults : x.file \in flive \cup {NULL}} :
          Commit(SentAtEmit(State, emit_row(State, t, build, io), t),
                 "emit_row", t, NULL)

Epilog(t) ==
    /\ t \in LiveTables
    /\ Commit(epilog(State, t), "epilog", t, NULL)

-----------------------------------------------------------------------------
(* Specifications                                                          *)

TreeStep ==
    \/ \E g \in GroupLike, col \in Items : AddItem(g, col)
    \/ \E g \in GroupLike, col \in Items : RemoveItem(g, col)
    \/ \E g \in GroupLike : Cleanup(g)

BindStep ==
    \/ \E t \in Tables, f \in Files : TableBind(t, f)
    \/ \E t \in Tables, f \in Files : TableUnbind(t, f)
    \/ \E t \in Tables : TableUnbindAll(t)
    \/ \E t \in Tables, f \in Files : FileBind(f, t)
    \/ \E t \in Tables, f \in Files : FileUnbind(f, t)
    \/ \E f \in Files : FileUnbindAll(f)

DataStep ==
    \/ \E t \in Tables : Prolog(t)
    \/ \E t \in Tables : EmitRow(t)
    \/ \E t \in Tables : Epilog(t)

\* The whole library: every operation on every object.
Next ==
    \/ \E t \in Tables : NewTable(t)
    \/ \E t \in Tables : DeleteTable(t)
    \/ \E i \in Items, p \in ParentArgs : NewItem(i, p)
    \/ \E i \in Items : DeleteItem(i)
    \/ TreeStep
    \/ \E c \in Columns, v \in Values : SetValue(c, v)
    \/ \E t \in Tables, v \in BOOLEAN : SetEnabled(t, v)
    \/ \E b \in BindingIds, v \in BOOLEAN : SetBindingEnabled(b, v)
    \/ BindStep
    \/ \E f \in Files : DeleteFile(f)
    \/ DataStep
Spec == Init /\ [][Next]_vars

\* The lock discipline on the tree: one table, one group, one column, all
\* constructed free-standing.
InitLock == InitWith({"T1", "G1", "c1"}, {"F1"})
NextLock ==
    \/ TreeStep
    \/ \E t \in Tables : Prolog(t)
    \/ \E t \in Tables : Epilog(t)
SpecLock == InitLock /\ [][NextLock]_vars

\* Binding around the lock: one table, a text file and an HDF5 location.
InitFrozen == InitWith({"T1"}, {"F1", "F2"})
NextFrozen ==
    \/ BindStep
    \/ \E t \in Tables : Prolog(t)
    \/ \E t \in Tables : Epilog(t)
SpecFrozen == InitFrozen /\ [][NextFrozen]_vars

\* Emission: result_table T1("R", {&c1}) (the constructor adds the column),
\* a text file and an HDF5 location.
InitEmit == InitFrom(add_item(Blank({"T1", "c1"}, {"F1", "F2"}), "T1", "c1").st)
NextEmit ==
    \/ \E t \in Tables, f \in Files : TableBind(t, f)
    \/ \E t \in Tables, f \in Files : FileBind(f, t)
    \/ DataStep
    \/ \E t \in Tables, v \in BOOLEAN : SetEnabled(t, v)
    \/ \E b \in BindingIds, v \in BOOLEAN : SetBindingEnabled(b, v)
SpecEmit == InitEmit /\ [][NextEmit]_vars

\* Rows: the same table and files; the files are bound between the
\* sessions and the column changes its value between the rows.
NextRows ==
    \/ \E t \in Tables, f \in Files : TableBind(t, f)
    \/ DataStep
    \/ \E c \in Columns, v \in Values : SetValue(c, v)
SpecRows == InitEmit /\ [][NextRows]_vars

\* Life cycle of one table: constructed, edited, bound to an HDF5 location
\* opened in append mode, run and destroyed.
InitLife == InitWith({"c1"}, {"F3"})
NextLife ==
    \/ NewTable("T1")
    \/ \E t \in Tables : DeleteTable(t)
    \/ \E g \in GroupLike, col \in Items : AddItem(g, col)
    \/ \E t \in Tables, f \in Files : TableBind(t, f)
    \/ DataStep
SpecLife == InitLife /\ [][NextLife]_vars

\* Registry: tables T1 and T2 (both named "R") and T3 ("S") come and go.
InitRegistry == InitWith({}, {"F3"})
NextRegistry ==
    \/ \E t \in Tables : NewTable(t)
    \/ \E t \in Tables : DeleteTable(t)
    \/ \E t \in Tables, f \in Files : TableBind(t, f)
    \/ \E t \in Tables : Prolog(t)
    \/ \E t \in Tables : Epilog(t)
SpecRegistry == InitRegistry /\ [][NextRegistry]_vars

\* Bindings: two tables, two files; tables and files are destroyed.
InitBind == InitWith({"T1", "T3"}, {"F1", "F2"})
NextBind ==
    \/ BindStep
    \/ \E f \in Files : DeleteFile(f)
    \/ \E t \in Tables : DeleteTable(t)
SpecBind == InitBind /\ [][NextBind]_vars

\* Destruction: bindings of two tables and two files, their enabled flags
\* set and cleared, tables and files destroyed.
NextDestroy ==
    \/ \E t \in Tables, f \in Files : TableBind(t, f) \/ FileBind(f, t)
    \/ \E b \in BindingIds, v \in BOOLEAN : SetBindingEnabled(b, v)
    \/ \E f \in Files : DeleteFile(f)
    \/ \E t \in Tables : DeleteTable(t)
SpecDestroy == InitBind /\ [][NextDestroy]_vars

\* The tree of items: a table, a group and a column, added, removed and
\* compacted in every order, in both builds.
InitTree == InitWith({"T1", "G1", "c1"}, {})
SpecTree == InitTree /\ [][TreeStep]_vars

\* Names of children: a table and three columns, two of them of one name.
InitNames == InitWith({"T1", "c1", "c2", "c3"}, {})
SpecNames == InitNames /\ [][TreeStep]_vars

\* Traversal: the table starts with a group that holds a column, and a
\* second column behind the group; items are removed and added again to
\* the group they were in, and the vectors compacted.
InitVisit ==
    InitFrom(add_item(add_item(add_item(Blank({"T1", "G1", "c1", "c2"}, {}),
                                        "T1", "G1").st,
                               "G1", "c1").st,
                      "T1", "c2").st)
NextVisit ==
    \/ \E col \in {"T1", "G1", "c2"} : AddItem("T1", col)
    \/ AddItem("G1", "c1")
    \/ \E g \in GroupLike, col \in Items : RemoveItem(g, col)
    \/ \E g \in GroupLike : Cleanup(g)
SpecVisit == InitVisit /\ [][NextVisit]_vars

\* Children of a group in a table: the group stays in the table, two
\* columns of one name and the table itself are added to and removed from
\* both, and the vectors compacted.
InitNested ==
    InitFrom(add_item(Blank({"T1", "G1", "c1", "c3"}, {}), "T1", "G1").st)
NextNested ==
    \/ \E g \in GroupLike, col \in Items : AddItem(g, col)
    \/ \E g \in GroupLike, col \in Columns \cup Tables : RemoveItem(g, col)
    \/ \E g \in GroupLike : Cleanup(g)
SpecNested == InitNested /\ [][NextNested]_vars

\* Destructors of items: a table, a group and a column are attached,
\* destroyed and constructed again, the table locked and unlocked meanwhile.
NextDtor ==
    \/ \E g \in GroupLike, col \in Items : AddItem(g, col)
    \/ \E i \in {"G1", "c1"}, p \in ParentArgs : NewItem(i, p)
    \/ \E i \in Items : DeleteItem(i)
    \/ NewTable("T1")
    \/ \E t \in Tables : DeleteTable(t)
    \/ \E t \in Tables : Prolog(t) \/ Epilog(t)
SpecDtor == InitLock /\ [][NextDtor]_vars

\* Record layouts: a table bound to an HDF5 location gets an int, a double
\* and a bounded string column, directly or inside a group, in every
\* order; prolog makes the handler, epilog deletes it.
InitLayout ==
    InitFrom(table_bind(Blank({"T1", "G1", "c1", "c2", "c3"}, {"F2"}),
                        "T1", "F2").st)
NextLayout ==
    \/ \E g \in GroupLike, col \in Items : AddItem(g, col)
    \/ \E t \in Tables : Prolog(t) \/ Epilog(t)
SpecLayout == InitLayout /\ [][NextLayout]_vars

\* Appending: a table with one column bound to an HDF5 location opened in
\* append mode runs session after session; the value of the column changes.
InitAppend ==
    InitFrom(table_bind(add_item(Blank({"T1", "c1"}, {"F3"}), "T1", "c1").st,
                        "T1", "F3").st)
NextAppend ==
    \/ DataStep
    \/ \E c \in Columns, v \in Values : SetValue(c, v)
SpecAppend == InitAppend /\ [][NextAppend]_vars

\* Truncating: the same table bound to an HDF5 location opened in truncate
\* mode.
InitTruncate ==
    InitFrom(table_bind(add_item(Blank({"T1", "c1"}, {"F2"}), "T1", "c1").st,
                        "T1", "F2").st)
SpecTruncate == InitTruncate /\ [][NextAppend]_vars

\* Changing schema: a table that gains columns between sessions, and two
\* HDF5 locations opened in append mode that it is bound to and unbound from.
InitSchema == InitWith({"T1", "c1", "c2"}, {"F3", "F4"})
NextSchema ==
    \/ \E col \in Columns : AddItem("T1", col)
    \/ \E f \in Files : TableBind("T1", f) \/ TableUnbind("T1", f)
    \/ Prolog("T1") \/ Epilog("T1")
SpecSchema == InitSchema /\ [][NextSchema]_vars

\* Typed columns: columns of every kind are constructed and written.
NextColumn ==
    \/ \E kind \in ArithKinds, v \in Values : NewColumn(kind, v)
    \/ \E kind \in StringKinds, maxlen \in Limits, v \in Strings :
          NewStringColumn(kind, maxlen, v)
    \/ \E v \in Strings : StringSetValue(v) \/ StringAssign(v) \/ SetString(v)
    \/ \E d \in Doubles : SetDouble(d)
InitColumn == InitWith({}, {})
SpecColumn == InitColumn /\ [][NextColumn]_vars

\* Opening files by URL.
NextOpen ==
    \E type \in UrlTypes, m \in UrlModes, f \in UrlFormats :
       OpenFile(type, [open_mode |-> m, format |-> f])
InitOpen ==
    /\ StateIs(Blank({}, {}))
    /\ lastop = [op |-> "init", a |-> "", res |-> "ok", hooks |-> <<>>,
                 b |-> [open_mode |-> Absent, format |-> Absent], ret |-> NoFile]
SpecOpen == InitOpen /\ [][NextOpen]_vars

\* Progress bar: a bar of any length is constructed, started (again and
\* again, with any number of expected ticks) and driven.
InitBar ==
    /\ StateIs(Blank({}, {}))
    /\ lastop = [op |-> "init", a |-> 0, b |-> NULL, res |-> "ok", ret |-> NULL,
                 hooks |-> <<>>]
NextBar ==
    \/ \E b \in 1..MaxB : NewBar(b)
    \/ \E n \in 0..MaxN : Start(n)
    \/ \E ticks \in 0..MaxTick : Tick(ticks) \/ Complete(ticks)
    \/ Finish
SpecBar == InitBar /\ [][NextBar]_vars

\* Text sinks: a table with two columns bound to a csvtab file, a csvrel
\* file and a csvtab sink on a pipe; the first column changes its value
\* between the rows.
InitText ==
    InitFrom(table_bind(table_bind(table_bind(
                 add_item(add_item(Blank({"T1", "c1", "c2"}, {"F1", "F5", "F6"}),
                                   "T1", "c1").st, "T1", "c2").st,
                 "T1", "F1").st, "T1", "F5").st, "T1", "F6").st)
MaxLines == 4
NextText ==
    \/ (\A f \in Files : Len(stream[f]) < MaxLines) /\ Prolog("T1")
    \/ EmitRow("T1") \/ Epilog("T1")
    \/ \E v \in Values : SetValue("c1", v)
SpecText == InitText /\ [][NextText]_vars

-----------------------------------------------------------------------------
(* Properties                                                              *)

\* The table that owns item i before the step.
OwnerOf(i) == TableOf(State, i)

\* The other preconditions of add_item(col) on group g.
AddPre(g, col) ==
    /\ col \notin Tables
    /\ parent[col] = NULL
    /\ item_names[g][ItemName(col)] = NULL

IsPrefix(s, t) == Len(s) <= Len(t) /\ SubSeq(t, 1, Len(s)) = s

\* The hooks of kind `which` on the files of the bindings in list, in order.
HooksOn(list, which) == [k \in 1..Len(list) |-> <<binding[list[k]].file, which>>]

EnabledBindings(t) == SelectSeq(files[t], LAMBDA b : binding[b].enabled)

\* C1: while the table that owns a group (or the table itself) is locked,
\* add_item and remove_item on it fail with an error and leave children,
\* names, parents and indices unchanged; while it is unlocked they succeed
\* when their other preconditions hold.
C1_LockedTreeFrozen ==
    [][lastop'.op \in {"add_item", "remove_item"} /\ OwnerOf(lastop'.a) \in Tables
       => IF locked[OwnerOf(lastop'.a)]
          THEN /\ lastop'.res = "error"
               /\ UNCHANGED <<children, item_names, parent, index>>
          ELSE /\ (lastop'.op = "add_item" /\ AddPre(lastop'.a, lastop'.b))
                    => /\ lastop'.res = "ok"
                       /\ parent'[lastop'.b] = lastop'.a
                       /\ item_names'[lastop'.a][ItemName(lastop'.b)] = lastop'.b
               /\ (lastop'.op = "remove_item" /\ parent[lastop'.b] = lastop'.a)
                    => /\ lastop'.res = "ok"
                       /\ parent'[lastop'.b] = NULL
                       /\ item_names'[lastop'.a][ItemName(lastop'.b)] = NULL]_vars

\* add_item on a group inside the locked table has failed.
C1_Witness ==
    /\ lastop.op = "add_item" /\ lastop.res = "error"
    /\ lastop.a = "G1" /\ lastop.b = "c1"
    /\ parent["G1"] = "T1" /\ parent["c1"] = NULL /\ locked["T1"]

BindOps == {"table_bind", "table_unbind", "table_unbind_all",
            "file_bind", "file_unbind", "file_unbind_all"}

\* C2: while a table is locked its list of bindings does not change, and a
\* bind, unbind or unbind_all that names the table fails, on the table's
\* side and on the file's side alike.
C2_LockedBindingsFrozen ==
    [][\A t \in LiveTables :
         (locked[t] /\ lastop'.op \in BindOps)
           => /\ files'[t] = files[t]
              /\ lastop'.a = t => lastop'.res = "error"]_vars

\* C3 as stated: emit_row on an unlocked table fails, whatever its bindings.
C3_UnlockedEmitFails ==
    (lastop.op = "emit_row" /\ ~locked[lastop.a]) => lastop.res = "error"

\* C3: emit_row on an unlocked table that has a binding fails with an error,
\* whatever the enabled flags; on an unlocked table with no binding it
\* returns normally and calls no hook.
C3_UnlockedBoundEmitFails ==
    (lastop.op = "emit_row" /\ ~locked[lastop.a])
      => IF files[lastop.a] # <<>>
         THEN lastop.res = "error" /\ lastop.hooks = <<>>
         ELSE lastop.res = "ok" /\ lastop.hooks = <<>>

\* emit_row has failed on an unlocked, disabled table with a binding.
C3_Witness ==
    /\ lastop.op = "emit_row" /\ lastop.res = "error"
    /\ ~locked["T1"] /\ ~en["T1"] /\ Len(files["T1"]) = 2

\* C4: emit_row on a locked, enabled table calls the row hook of the files
\* of the enabled bindings, in list order, and of no other file; when it
\* returns normally it has called each of them exactly once.
C4_RowHooksOnEnabled ==
    (lastop.op = "emit_row" /\ locked[lastop.a] /\ en[lastop.a])
      => /\ IsPrefix(lastop.hooks, HooksOn(EnabledBindings(lastop.a), "row"))
         /\ lastop.res = "ok"
              => lastop.hooks = HooksOn(EnabledBindings(lastop.a), "row")

\* emit_row has returned normally with one binding enabled, one disabled.
C4_Witness ==
    /\ lastop.op = "emit_row" /\ lastop.res = "ok"
    /\ locked["T1"] /\ en["T1"]
    /\ Len(files["T1"]) = 2 /\ Len(EnabledBindings("T1")) = 1
    /\ Len(lastop.hooks) = 1

\* C5: emit_row on a locked table whose enabled flag is false returns
\* normally, calls no row hook and leaves every stream and dataset as it
\* was.
C5_DisabledTableEmitsNothing ==
    [][(lastop'.op = "emit_row" /\ locked[lastop'.a] /\ ~en[lastop'.a])
         => /\ lastop'.res = "ok"
            /\ lastop'.hooks = <<>>
            /\ UNCHANGED <<stream, dataset>>]_vars

\* emit_row has run on a locked, disabled table with an enabled binding.
C5_Witness ==
    /\ lastop.op = "emit_row" /\ lastop.res = "ok"
    /\ locked["T1"] /\ ~en["T1"]
    /\ Len(EnabledBindings("T1")) = 2

\* C6: prolog and epilog call their hook on the files of the bindings of
\* the table in list order, enabled or not; when they return normally they
\* have called it exactly once for every binding.  emit_row calls no row
\* hook on the file of a disabled binding.
C6_PrologEpilogOnAll ==
    /\ lastop.op \in {"prolog", "epilog"}
         => /\ IsPrefix(lastop.hooks, HooksOn(files[lastop.a], lastop.op))
            /\ lastop.res = "ok"
                 => lastop.hooks = HooksOn(files[lastop.a], lastop.op)
    /\ lastop.op = "emit_row"
         => \A k \in 1..Len(lastop.hooks) :
              \E j \in 1..Len(files[lastop.a]) :
                 /\ binding[files[lastop.a][j]].file = lastop.hooks[k][1]
                 /\ binding[files[lastop.a][j]].enabled

\* epilog has returned normally on a table with a disabled binding.
C6_Witness ==
    /\ lastop.op = "epilog" /\ lastop.res = "ok"
    /\ Len(files["T1"]) = 2 /\ Len(EnabledBindings("T1")) = 1
    /\ Len(lastop.hooks) = 2

\* C7: in a session of a table in which every emit_row has returned
\* normally, the rows a bound, enabled file has received for the table
\* since prolog are the snapshots taken at the emit_row calls, in call
\* order.
C7_RowsInCallOrder ==
    \A t \in LiveTables, f \in flive :
       sent[t][f].ok
         => /\ sent[t][f].base <= Len(Received(State, f, t))
            /\ SubSeq(Received(State, f, t), sent[t][f].base + 1,
                      Len(Received(State, f, t))) = sent[t][f].rows

\* Both files have received two different rows, in order.
C7_Witness ==
    /\ lastop.op = "emit_row" /\ lastop.res = "ok"
    /\ locked["T1"] /\ sent["T1"]["F2"].ok
    /\ Len(sent["T1"]["F2"].rows) = 2
    /\ sent["T1"]["F2"].rows[1] # sent["T1"]["F2"].rows[2]
    /\ Received(State, "F1", "T1") = sent["T1"]["F2"].rows
    /\ Received(State, "F2", "T1") = sent["T1"]["F2"].rows

\* C8: a table is unlocked when constructed; it is locked after a prolog
\* that returns normally; a live locked table stays locked through every
\* step but its epilog; after epilog it is unlocked, and add_item on it
\* succeeds again when its other preconditions hold.
C8_LockLifeCycle ==
    [][/\ (lastop'.op = "new_table" /\ lastop'.res = "ok") => ~locked'[lastop'.a]
       /\ (lastop'.op = "prolog" /\ lastop'.res = "ok") => locked'[lastop'.a]
       /\ lastop'.op = "epilog" => ~locked'[lastop'.a]
       /\ \A t \in LiveTables :
            (locked[t] /\ ~locked'[t] /\ t \in live')
              => lastop'.op = "epilog" /\ lastop'.a = t
       /\ (/\ lastop'.op = "add_item" /\ lastop'.a \in Tables
           /\ ~locked[lastop'.a] /\ AddPre(lastop'.a, lastop'.b))
            => lastop'.res = "ok" /\ parent'[lastop'.b] = lastop'.a]_vars

\* The table has been locked, has emitted a row and has been unlocked.
C8_Witness ==
    /\ lastop.op = "epilog" /\ lastop.a = "T1" /\ ~locked["T1"]
    /\ Len(Received(State, "F3", "T1")) >= 1

\* C9: no two live tables have one name, and get(name) is the live table
\* of that name; constructing a table whose name a live table has fails
\* and leaves the registry and the set of tables unchanged; destroying a
\* table empties its name, and constructing a table with a free name
\* succeeds.
C9_UniqueNames ==
    [][/\ \A t \in live' \cap Tables : get(State', ItemName(t)) = t
       /\ \A n \in TableNames :
            get(State', n) # NULL => get(State', n) \in live' \cap Tables
       /\ lastop'.op = "new_table"
            => IF get(State, ItemName(lastop'.a)) # NULL
               THEN /\ lastop'.res = "error"
                    /\ UNCHANGED <<registry, all_tables, live>>
               ELSE /\ lastop'.res = "ok"
                    /\ get(State', ItemName(lastop'.a)) = lastop'.a
       /\ lastop'.op = "delete_table"
            => get(State', ItemName(lastop'.a)) = NULL]_vars

\* The second table named "R" has been constructed after the first was
\* destroyed.
C9_Witness ==
    /\ lastop.op = "new_table" /\ lastop.a = "T2" /\ lastop.res = "ok"
    /\ registry["R"] = "T2" /\ "T1" \notin live /\ "T3" \in live

Occurs(list, b) == Cardinality({k \in 1..Len(list) : list[k] = b})

\* C10: a binding is on the list of a table exactly when it is on the list
\* of a file; it is then once on the list of the table and once on the
\* list of the file that its fields name, and on no other list.
C10_ListsAgree ==
    \A b \in BindingIds :
       /\ \A t \in Tables :
            Occurs(files[t], b) = IF binding[b].table = t THEN 1 ELSE 0
       /\ \A f \in Files :
            Occurs(tables[f], b) = IF binding[b].file = f THEN 1 ELSE 0
       /\ binding[b].table = NULL <=> binding[b].file = NULL

\* An unbind has removed one of three bindings.
C10_Witness ==
    /\ lastop.op \in {"table_unbind", "file_unbind"}
    /\ Cardinality({b \in BindingIds : binding[b] # NoBinding}) = 2
    /\ Len(files["T1"]) = 2 /\ Len(tables["F1"]) = 1 /\ Len(tables["F2"]) = 1

\* The allocated bindings of table t and file f.
BindingsOf(t, f) ==
    {b \in BindingIds : binding[b].table = t /\ binding[b].file = f}

\* C11: bind is idempotent from either side: at most one binding exists for
\* a pair of a table and a sink, and a bind of a pair that is already bound
\* succeeds, makes no binding and leaves the existing one, with its place
\* on both lists, as the binding of the pair.
C11_BindIdempotent ==
    /\ [](\A t \in Tables, f \in Files : Cardinality(BindingsOf(t, f)) <= 1)
    /\ [][(/\ lastop'.op \in {"table_bind", "file_bind"}
           /\ BindingsOf(lastop'.a, lastop'.b) # {})
          => /\ lastop'.res = "ok"
             /\ binding' = binding
             /\ files' = files
             /\ tables' = tables
             /\ FindFile(State, files[lastop'.a], lastop'.b)
                    \in BindingsOf(lastop'.a, lastop'.b)]_vars

\* The sink has bound a pair again: a new binding would have taken the free
\* slot 1, the binding of the pair is the older one in slot 2.
C11_Witness ==
    /\ lastop.op = "file_bind" /\ lastop.a = "T1" /\ lastop.b = "F1"
    /\ binding[1] = NoBinding
    /\ binding[2] = [file |-> "F1", table |-> "T1", enabled |-> TRUE]

\* The bindings of the list that do not satisfy gone, in list order.
Keep(list, gone(_)) == SelectSeq(list, LAMBDA b : ~gone(b))

\* C12: the destructor of a table or of a sink returns, every binding of
\* the destroyed object is freed and erased from the list of its peer, and
\* every other binding keeps its fields, its enabled flag and its place on
\* the lists.
C12_DestroyUnbinds ==
    [][/\ lastop'.op = "delete_table" =>
           LET Gone(b) == binding[b].table = lastop'.a
           IN /\ lastop'.res = "ok"
              /\ lastop'.a \notin live'
              /\ files'[lastop'.a] = <<>>
              /\ \A b \in BindingIds :
                    binding'[b] = IF Gone(b) THEN NoBinding ELSE binding[b]
              /\ \A f \in Files : tables'[f] = Keep(tables[f], Gone)
              /\ \A t \in Tables \ {lastop'.a} : files'[t] = files[t]
       /\ lastop'.op = "delete_file" =>
           LET Gone(b) == binding[b].file = lastop'.b
           IN /\ lastop'.res = "ok"
              /\ lastop'.b \notin flive'
              /\ tables'[lastop'.b] = <<>>
              /\ \A b \in BindingIds :
                    binding'[b] = IF Gone(b) THEN NoBinding ELSE binding[b]
              /\ \A t \in Tables : files'[t] = Keep(files[t], Gone)
              /\ \A f \in Files \ {lastop'.b} : tables'[f] = tables[f]]_vars

\* File F1 was destroyed while bound to both tables; the disabled binding
\* of T1 and F2 is still in place.
C12_Witness ==
    /\ lastop.op = "delete_file" /\ lastop.b = "F1"
    /\ \E b \in BindingIds :
          /\ binding[b] = [file |-> "F2", table |-> "T1", enabled |-> FALSE]
          /\ files["T1"] = <<b>> /\ tables["F2"] = <<b>>
    /\ files["T3"] = <<>>
    /\ Cardinality(FreeIds(State)) = MaxBindings - 1

\* C13: in a running process every non-null child c in slot i of a group g
\* has parent g and index i (slots counted from 0, as _index is).
C13_ChildLinks ==
    lastop.res # "abort" =>
      \A g \in LiveGroups : \A k \in 1..Len(children[g]) :
         LET c == children[g][k]
         IN c # NULL => parent[c] = g /\ index[c] = k - 1

\* A compaction has closed the gap that the removal of the first child
\* left: the column and the group behind it have moved down.
C13_Witness ==
    /\ lastop.op = "cleanup" /\ lastop.a = "T1" /\ lastop.res = "ok"
    /\ children["T1"] = <<"G1", "c1">>
    /\ children["G1"] = <<>>
    /\ index["G1"] = 0 /\ index["c1"] = 1

\* The basic columns reachable from item i, in pre-order.
ReachableColumns(i) == SelectColumns(Visit(State, i, Fuel))

\* C14: when size() of a table has returned, the column cache of the table
\* (what size() counts and operator[] indexes) is the sequence of the basic
\* columns reachable from the table, in pre-order.
C14_CacheFresh ==
    (/\ lastop.op = "cleanup" /\ lastop.res = "ok" /\ lastop.a \in Tables)
    => columns[lastop.a] = ReachableColumns(lastop.a)

\* The slots of group g that hold a child of name n.
SlotsNamed(g, n) ==
    {k \in 1..Len(children[g]) :
        children[g][k] # NULL /\ ItemName(children[g][k]) = n}

\* C15: in a running process the name map of a group holds, for each name,
\* the one non-null child of that name, and nothing for a name that no
\* non-null child has; add_item of a free item to an unlocked group fails
\* exactly when the name is on the map, so it succeeds again once the child
\* of that name was removed.
C15_ChildNames ==
    /\ [](lastop.res # "abort" =>
            \A g \in LiveGroups, n \in Names :
               IF item_names[g][n] = NULL THEN SlotsNamed(g, n) = {}
               ELSE /\ Cardinality(SlotsNamed(g, n)) = 1
                    /\ \A k \in SlotsNamed(g, n) :
                          children[g][k] = item_names[g][n])
    /\ [][(/\ lastop'.op = "add_item"
           /\ lastop'.b \notin Tables
           /\ parent[lastop'.b] = NULL
           /\ _check_unlocked(State, lastop'.a) = "ok")
          => /\ lastop'.res \in {"ok", "error"}
             /\ lastop'.res = "error"
                  <=> item_names[lastop'.a][ItemName(lastop'.b)] # NULL]_vars

\* Column c3 of name x was added after the child of that name was removed:
\* the slot of the old child is still null.
C15_Witness ==
    /\ lastop.op = "add_item" /\ lastop.a = "T1" /\ lastop.b = "c3"
    /\ lastop.res = "ok"
    /\ children["T1"] = <<NULL, "c2", "c3">>
    /\ item_names["T1"]["x"] = "c3"
    /\ parent["c1"] = NULL

\* The top of the parent chain of item x (x itself when the chain does not
\* end within fuel steps).
RECURSIVE RootWalk(_, _)
RootWalk(x, fuel) ==
    IF parent[x] = NULL \/ fuel = 0 THEN x ELSE RootWalk(parent[x], fuel - 1)
RootOf(x) == RootWalk(x, Fuel)

\* The items that have a parent and whose parent chain ends.
Attached == {x \in live : parent[x] # NULL /\ parent[RootOf(x)] = NULL}

\* C16 as stated: for every item x that has a parent, get_item of the path
\* name of x on the root of the hierarchy of x returns x.
C16_RoundTrip ==
    lastop.res # "abort" =>
      \A x \in Attached :
         get_item(State, RootOf(x), path_name(State, x, Slash)).item = x

\* C16 amended: on the table that owns x, get_item of the path name of x
\* returns x; under a free-standing group r the path name of x is the name
\* of r, a separator and a path p, and get_item of p on r returns x.
C16_RoundTripFromTable ==
    lastop.res # "abort" =>
      \A x \in Attached :
         LET r == RootOf(x)
             p == path_name(State, x, Slash)
             own == NameChars(ItemName(r)) \o Slash
         IN IF r \in Tables
            THEN get_item(State, r, p) = Found(State, x)
            ELSE /\ Len(p) > Len(own)
                 /\ SubSeq(p, 1, Len(own)) = own
                 /\ get_item(State, r, SubSeq(p, Len(own) + 1, Len(p)))
                       = Found(State, x)

\* The column sits two levels below the table: its path name is g/x, and
\* the lookup of that path on the table has returned it.
C16_Witness ==
    /\ parent["c1"] = "G1" /\ parent["G1"] = "T1"
    /\ path_name(State, "c1", Slash) = <<"g", "/", "x">>
    /\ get_item(State, "T1", <<"g", "/", "x">>).item = "c1"
    /\ lastop.res = "ok"

\* b is in a slot of group a.
ChildOf(a, b) == a \in GroupLike /\ \E k \in 1..Len(children[a]) : children[a][k] = b

\* The items reached from the set S over at most n child links.
RECURSIVE Reach(_, _)
Reach(S, n) ==
    IF n = 0 THEN S
    ELSE Reach(S \cup {b \in Items : \E a \in S : ChildOf(a, b)}, n - 1)

\* The items below item g, and the position of an item in a sequence.
Below(g) == Reach({b \in Items : ChildOf(g, b)}, Fuel)
PosIn(seq, x) == CHOOSE k \in 1..Len(seq) : seq[k] = x

\* C17: visit on a column calls the visitor once, on the column.  In a
\* running process visit on a group whose subtree is finite calls it on the group first, then once
\* on each item below the group and on no other item (so on no removed
\* child), a child after its parent, and the whole subtree of a child
\* before the children in the later slots of the same group.
C17_VisitPreOrder ==
    /\ \A c \in LiveColumns : Visit(State, c, Fuel) = <<c>>
    /\ \A g \in LiveGroups : (lastop.res # "abort" /\ g \notin Below(g)) =>
          LET seen == Visit(State, g, Fuel)
          IN /\ seen[1] = g
             /\ {seen[k] : k \in 1..Len(seen)} = {g} \cup Below(g)
             /\ Len(seen) = Cardinality({g} \cup Below(g))
             /\ \A p \in ({g} \cup Below(g)) \cap GroupLike :
                   \A k \in 1..Len(children[p]) : children[p][k] # NULL =>
                      /\ PosIn(seen, p) < PosIn(seen, children[p][k])
                      /\ \A j \in 1..(k - 1) : children[p][j] # NULL =>
                            \A d \in {children[p][j]} \cup Below(children[p][j]) :
                               PosIn(seen, d) < PosIn(seen, children[p][k])

\* The group was removed and added again behind the second column, its
\* old slot is null: the visit of the table sees the column first, then
\* the group and the column in it.
C17_Witness ==
    /\ children["T1"] = <<NULL, "c2", "G1">>
    /\ children["G1"] = <<"c1">>
    /\ Visit(State, "T1", Fuel) = <<"T1", "c2", "G1", "c1">>
    /\ lastop.op = "add_item" /\ lastop.res = "ok"

\* The path strings looked up: every string of at most MaxPathLen
\* characters over two names of items and the separator.
PathChars == {"g", "x", "/"}
PathStrings == UNION {[1..n -> PathChars] : n \in 0..MaxPathLen}

\* The items reached from the set S along the tokens from the k-th on, each
\* step from a group to the child in one of its slots that has the token
\* as its name.
RECURSIVE ReachBy(_, _, _)
ReachBy(S, toks, k) ==
    IF k > Len(toks) THEN S
    ELSE ReachBy({c \in Items : /\ NameChars(ItemName(c)) = toks[k]
                                /\ \E a \in S : ChildOf(a, c)},
                 toks, k + 1)

\* C18: get_item of a path on a group ends in an error and changes nothing
\* when the walk along the components of the path does not stay within
\* current children: a component is not the name of a child in a slot of
\* the group reached (the child was removed, or never added), or the item
\* reached is no group while components are left.
C18_GetItemFails ==
    lastop.res # "abort" =>
      \A g \in LiveGroups, p \in PathStrings :
         ReachBy({g}, Split(p), 1) = {} => get_item(State, g, p) = NotFound(State)

\* The group was removed from the table with the column still in it: the
\* paths g and g/x no longer resolve on the table, and x/g ends at a column
\* on the group.
C18_Witness ==
    /\ lastop.op = "remove_item" /\ lastop.a = "T1" /\ lastop.b = "G1"
    /\ lastop.res = "ok"
    /\ children["T1"] = <<NULL>> /\ children["G1"] = <<"c1">>
    /\ get_item(State, "T1", <<"g">>).res = "error"
    /\ get_item(State, "T1", <<"g", "/", "x">>).res = "error"
    /\ get_item(State, "G1", <<"x", "/", "g">>).res = "error"
    /\ get_item(State, "G1", <<"x">>).item = "c1"

\* C19: add_item of x to a group g ends in an error when x is a table, when
\* x has a parent, or when g has a child of the name of x, and then the
\* children, name maps, parents, indices and the column cache flags are
\* the ones before the call; so an add_item that succeeds was given an item
\* without a parent.
C19_AddItemFails ==
    [][lastop'.op = "add_item" =>
         LET g == lastop'.a
             x == lastop'.b
         IN /\ (\/ x \in Tables
                \/ parent[x] # NULL
                \/ item_names[g][ItemName(x)] # NULL)
               => /\ lastop'.res = "error"
                  /\ children' = children
                  /\ item_names' = item_names
                  /\ parent' = parent
                  /\ index' = index
                  /\ dirty_columns' = dirty_columns
                  /\ columns' = columns
            /\ lastop'.res = "ok" => parent[x] = NULL /\ parent'[x] = g]_vars

\* Column c1 is a child of the table; the add of c1 to the group, which has
\* no child of that name, has failed and c1 is where it was.
C19_Witness ==
    /\ lastop.op = "add_item" /\ lastop.a = "G1" /\ lastop.b = "c1"
    /\ lastop.res = "error"
    /\ item_names["G1"]["x"] = NULL
    /\ parent["c1"] = "T1" /\ children["T1"] = <<"G1", "c1">>
    /\ index["c1"] = 1

\* C20: remove_item of a child c of group g returns normally; the slot of c
\* in g is null, c has no parent, the name of c is off the name map of g
\* and g is dirty; the vector of g keeps its length and its other slots,
\* and no index, no other parent, no other vector and no other name map
\* changes.  remove_item of an item that is not a child of g ends in an
\* error and changes nothing.
C20_RemoveItem ==
    [][lastop'.op = "remove_item" =>
         LET g == lastop'.a
             c == lastop'.b
         IN IF parent[c] = g
            THEN /\ lastop'.res = "ok"
                 /\ children[g][index[c] + 1] = c
                 /\ children' = [children EXCEPT ![g][index[c] + 1] = NULL]
                 /\ parent' = [parent EXCEPT ![c] = NULL]
                 /\ item_names' = [item_names EXCEPT ![g][ItemName(c)] = NULL]
                 /\ dirty'[g]
                 /\ index' = index
            ELSE /\ lastop'.res = "error"
                 /\ children' = children
                 /\ parent' = parent
                 /\ item_names' = item_names
                 /\ index' = index
                 /\ dirty' = dirty
                 /\ dirty_columns' = dirty_columns]_vars

\* The group in the first slot of the table was removed: the slot is null,
\* the column behind it is still in the second slot with index 1.
C20_Witness ==
    /\ lastop.op = "remove_item" /\ lastop.a = "T1" /\ lastop.b = "G1"
    /\ lastop.res = "ok"
    /\ children["T1"] = <<NULL, "c2">>
    /\ parent["G1"] = NULL /\ item_names["T1"]["g"] = NULL
    /\ parent["c2"] = "T1" /\ index["c2"] = 1
    /\ dirty["T1"]

\* The owner that the destructor of item x looks at is absent or unlocked.
DtorFree(x) ==
    LET owner == BaseTableOf(State, x)
    IN owner = NULL \/ (owner \in Tables /\ ~locked[owner])

\* C21: the destructor of an item whose owning table, if any, is unlocked
\* returns; the item is gone, its slot in its parent is null and its name
\* is off the parent's name map; every child of a destroyed group or table
\* has no parent, so what a destroyed table owned has no table; all other
\* parents are unchanged.  In a running process no live group holds a slot
\* or a name entry for a destroyed item, and no live item has a destroyed
\* parent.
C21_DestroyDetaches ==
    /\ [](lastop.res # "abort" =>
            /\ \A g \in LiveGroups :
                  /\ \A k \in 1..Len(children[g]) :
                        children[g][k] \in live \cup {NULL}
                  /\ \A n \in Names : item_names[g][n] \in live \cup {NULL}
            /\ \A i \in live : parent[i] \in live \cup {NULL})
    /\ [][(/\ lastop'.op \in {"delete_item", "delete_table"}
           /\ DtorFree(lastop'.a))
          => LET x == lastop'.a
             IN /\ lastop'.res = "ok"
                /\ live' = live \ {x}
                /\ parent[x] # NULL =>
                      /\ children'[parent[x]] =
                            [children[parent[x]] EXCEPT ![index[x] + 1] = NULL]
                      /\ item_names'[parent[x]][ItemName(x)] = NULL
                /\ \A c \in Items :
                      parent'[c] = IF parent[c] = x \/ c = x THEN NULL
                                   ELSE parent[c]
                /\ \A d \in live \ {x} :
                      TableOf(State, d) = x
                        => TableOf([parent |-> parent'], d) = NULL]_vars

\* The group was destroyed while it sat in the table with the column in
\* it: its slot in the table is null and the column is free-standing.
C21_Witness ==
    /\ lastop.op = "delete_item" /\ lastop.a = "G1" /\ lastop.res = "ok"
    /\ "G1" \notin live /\ "c1" \in live /\ "T1" \in live
    /\ children["T1"] = <<NULL>> /\ children["G1"] = <<NULL>>
    /\ parent["c1"] = NULL /\ item_names["T1"]["g"] = NULL

\* C22: the destructor of a column or a group (one whose chain of parents
\* ends) returns normally, also when the item is inside a locked table.
C22_DestructorsReturn ==
    [][(/\ lastop'.op = "delete_item"
        /\ BaseTableOf(State, lastop'.a) # "diverge")
       => lastop'.res = "ok"]_vars

\* The sequences of at most MaxCols columns, repeats included.
Layouts == UNION {[1..n -> Columns] : n \in 0..MaxCols}

\* cp holds an offset for each column: 0 for the first, and for each later
\* column the smallest multiple of its alignment that is not below the end
\* of the column before it.
OffsetsOk(cols, cp) ==
    /\ Len(cp) = Len(cols)
    /\ \A i \in 1..Len(cols) :
          IF i = 1 THEN cp[i] = 0
          ELSE LET end == cp[i - 1] + ColSize(cols[i - 1])
                   al == ColAlign(cols[i])
               IN cp[i] % al = 0 /\ cp[i] >= end /\ cp[i] - al < end

\* C23: the offsets that the handler of an HDF5 location computes, for
\* every sequence of int, double and bounded string columns and for the
\* columns of the table it was made for, start at 0 and put each later
\* column at the smallest multiple of its alignment at or behind the end
\* of the column before it.
C23_Offsets ==
    /\ \A cols \in Layouts : OffsetsOk(cols, NewHandler(cols).colpos)
    /\ \A f \in Hdf5Files, t \in LiveTables :
          handler[f][t].made => OffsetsOk(columns[t], handler[f][t].colpos)

\* The handler was made for the table whose columns are the string and
\* the double in the group and the int behind the group: offsets 0, 8, 16.
C23_Witness ==
    /\ lastop.op = "prolog" /\ lastop.res = "ok"
    /\ columns["T1"] = <<"c3", "c2", "c1">>
    /\ children["G1"] = <<"c3", "c2">>
    /\ handler["F2"]["T1"].made
    /\ handler["F2"]["T1"].colpos = <<0, 8, 16>>

\* C24: the record size of a handler made for a table with columns is the
\* end of the last column rounded up to a multiple of the largest
\* alignment of the columns.
C24_RecordSize ==
    \A f \in Hdf5Files, t \in LiveTables :
       (handler[f][t].made /\ Len(columns[t]) > 0) =>
          LET h == handler[f][t]
              n == Len(columns[t])
              end == h.colpos[n] + ColSize(columns[t][n])
              A == RecAlign(columns[t])
          IN h.size % A = 0 /\ h.size >= end /\ h.size - A < end

\* The record of the current values of the columns of table t: each value
\* at the offset of its column.
RecordOf(t) ==
    [k \in 1..Len(columns[t]) |->
       <<ColPos(columns[t], k), val[columns[t][k]]>>]

\* C25: at an HDF5 location opened in truncate mode (F2) a prolog that
\* returns leaves the dataset of the table with no record, whatever it
\* held; an emit_row that returns, on the locked, enabled table with the
\* binding enabled, makes the dataset one record longer, the new record
\* being the current values, behind the unchanged earlier records.
C25_TruncateThenAppend ==
    [][\A t \in LiveTables :
         LET ds == dataset["F2"][ItemName(t)]
             ds2 == dataset'["F2"][ItemName(t)]
         IN (lastop'.a = t /\ lastop'.res = "ok") =>
            /\ (lastop'.op = "prolog" /\ "F2" \in BoundFiles(State, t))
                 => ds2.exists /\ ds2.rows = <<>>
            /\ (/\ lastop'.op = "emit_row"
                /\ locked[t] /\ en[t]
                /\ "F2" \in EnabledFiles(State, t))
                 => /\ ds.exists /\ ds2.exists
                    /\ ds2.rows = Append(ds.rows, RecordOf(t))]_vars

\* Two rows with different values have been written since the prolog: the
\* dataset holds their records in the order of the calls.
C25_Witness ==
    /\ lastop.op = "emit_row" /\ lastop.res = "ok" /\ locked["T1"]
    /\ "F2" \in EnabledFiles(State, "T1")
    /\ sent["T1"]["F2"].base = 0 /\ sent["T1"]["F2"].ok
    /\ Len(dataset["F2"]["R"].rows) = 2
    /\ dataset["F2"]["R"].rows[1] # dataset["F2"]["R"].rows[2]
    /\ dataset["F2"]["R"].rows[2] = RecordOf("T1")

\* C26: at an HDF5 location opened in append mode (F3), with the columns
\* of the table unchanged, a prolog that returns keeps the records of the
\* dataset and an emit_row that returns adds the record of the current
\* values behind them; so while no call of a session has failed the dataset
\* holds what it held at prolog followed by the records of the session.
C26_AppendSessions ==
    /\ [][\A t \in LiveTables :
            LET ds == dataset["F3"][ItemName(t)]
                ds2 == dataset'["F3"][ItemName(t)]
            IN (lastop'.a = t /\ lastop'.res = "ok") =>
               /\ (/\ lastop'.op = "prolog"
                   /\ "F3" \in BoundFiles(State, t) /\ ds.exists)
                    => ds2 = ds
               /\ (/\ lastop'.op = "emit_row"
                   /\ locked[t] /\ en[t]
                   /\ "F3" \in EnabledFiles(State, t))
                    => /\ ds.exists /\ ds2.exists
                       /\ ds2.rows = Append(ds.rows, RecordOf(t))]_vars
    /\ [](\A t \in LiveTables :
            sent[t]["F3"].ok =>
              LET got == Received(State, "F3", t)
              IN /\ sent[t]["F3"].base <= Len(got)
                 /\ SubSeq(got, sent[t]["F3"].base + 1, Len(got))
                       = sent[t]["F3"].rows)

\* The second session has added a record with another value behind the
\* record of the first session.
C26_Witness ==
    /\ lastop.op = "emit_row" /\ lastop.res = "ok" /\ locked["T1"]
    /\ sent["T1"]["F3"].base = 1 /\ sent["T1"]["F3"].ok
    /\ Len(sent["T1"]["F3"].rows) = 1
    /\ Len(dataset["F3"]["R"].rows) = 2
    /\ dataset["F3"]["R"].rows[1] # dataset["F3"]["R"].rows[2]
    /\ dataset["F3"]["R"].rows[2] = RecordOf("T1")

\* The compound type computed from the flat column sequence of a table.
TableType(cols) == NewHandler(cols).type

\* C27: in append mode, a prolog that finds at a bound location a dataset
\* with the name of the table whose element type differs from the compound
\* type of the table's columns fails with an error, leaves that dataset as
\* it was and leaves the table unlocked.
C27_MismatchFails ==
    [][\A t \in LiveTables, f \in {"F3", "F4"} :
         LET ds == dataset[f][ItemName(t)]
         IN (/\ lastop'.op = "prolog" /\ lastop'.a = t
             /\ f \in BoundFiles(State, t)
             /\ ds.exists
             /\ ds.type # TableType(columns'[t]))
              => /\ lastop'.res = "error"
                 /\ dataset'[f][ItemName(t)] = ds
                 /\ ~locked'[t]]_vars

\* C28: after a write of the string s to a bounded-string column (initial
\* value at construction, set_value, operator=, set) the value is the first
\* min(|s|, maxlen) characters of s, and the raw copy has maxlen+1 bytes:
\* that prefix, then NUL bytes.
C28_BoundedString ==
    [][(/\ lastop'.op \in {"new_string_column", "string_set_value",
                           "string_assign", "set_string"}
        /\ lastop'.res = "ok"
        /\ bcol'.kind = "string")
         => LET v == lastop'.a
                n == IF Len(v) < bcol'.maxlen THEN Len(v) ELSE bcol'.maxlen
                raw == string_copy(bcol')
            IN /\ bcol'.str = SubSeq(v, 1, n)
               /\ Len(raw) = bcol'.maxlen + 1
               /\ \A i \in 1..Len(raw) : raw[i] = IF i <= n THEN v[i] ELSE NUL]_vars

\* C29: set(double) succeeds exactly when is_arithmetic() holds, set(string)
\* exactly on a string column; a failing call raises an error and leaves
\* the column as it was.
C29_SetByKind ==
    [][/\ lastop'.op = "set_double"
          => /\ (lastop'.res = "ok") <=> is_arithmetic(bcol)
             /\ lastop'.res # "ok" => (lastop'.res = "error" /\ bcol' = bcol)
       /\ lastop'.op = "set_string"
          => /\ (lastop'.res = "ok") <=> (bcol.kind \in StringKinds)
             /\ lastop'.res # "ok" => (lastop'.res = "error" /\ bcol' = bcol)]_vars

\* C30: an unbind that returns (from the side of the table or of the file)
\* returns true exactly when a binding of the table and the file existed
\* before the call; afterwards there is none, and when there was none the
\* call changes nothing.
C30_UnbindReturns ==
    [][\A t \in Tables, f \in Files :
         (/\ lastop'.op \in {"table_unbind", "file_unbind"}
          /\ lastop'.a = t /\ lastop'.b = f
          /\ lastop'.res = "ok")
           => /\ lastop'.ret = (BindingsOf(t, f) # {})
              /\ {b \in BindingIds : binding'[b].table = t /\ binding'[b].file = f} = {}
              /\ \A k \in 1..Len(files'[t]) : binding'[files'[t][k]].file # f
              /\ \A k \in 1..Len(tables'[f]) : binding'[tables'[f][k]].table # t
              /\ BindingsOf(t, f) = {} => State' = State]_vars

\* An unbind from the table has returned true and has removed the binding
\* to F1 while the table stays bound to F2.
C30_Witness ==
    /\ lastop.op = "table_unbind" /\ lastop.a = "T1" /\ lastop.b = "F1"
    /\ lastop.res = "ok" /\ lastop.ret = TRUE
    /\ BindingsOf("T1", "F1") = {}
    /\ BindingsOf("T1", "F2") # {}

\* C31: open_file succeeds exactly when the type is one of file, hdf5,
\* stdout and stderr, open_mode is absent, truncate or append, and format is
\* absent, csvtab or csvrel; a file that is opened has the mode and the
\* format asked for, truncate and csvrel when absent.
C31_OpenFile ==
    [][lastop'.op = "open_file" =>
         LET type == lastop'.a
             uvars == lastop'.b
             legal == /\ type \in {"file", "hdf5", "stdout", "stderr"}
                      /\ uvars.open_mode \in {Absent, "truncate", "append"}
                      /\ uvars.format \in {Absent, "csvtab", "csvrel"}
         IN /\ (lastop'.res = "ok") <=> legal
            /\ ~legal => lastop'.res = "error"
            /\ (legal /\ type = "file") =>
                  /\ lastop'.ret.mode = IF uvars.open_mode = Absent THEN "truncate"
                                        ELSE uvars.open_mode
                  /\ lastop'.ret.format = IF uvars.format = Absent THEN "csvrel"
                                          ELSE uvars.format]_vars

\* The text sinks.
TextFiles == {f \in Files : FileKind(f) # "hdf5"}

\* The header line of table t and the line of its current row at sink f,
\* from the flat column sequence cols.
HeaderOf(t, cols) ==
    [kind |-> "header", table |-> t, lead |-> <<>>,
     cells |-> [k \in 1..Len(cols) |-> ItemName(cols[k])]]
RowLineOf(t, f, cols, vals) ==
    [kind |-> "row", table |-> t,
     lead |-> IF FileKind(f) = "csvrel" THEN <<ItemName(t)>> ELSE <<>>,
     cells |-> [k \in 1..Len(cols) |-> vals[cols[k]]]]

\* What a returning prolog and a returning emit_row of table t do to the
\* stream of text sink f, when the header is due exactly under `due`.
TextStep(t, f, due) ==
    (lastop'.a = t /\ lastop'.res = "ok") =>
       /\ (lastop'.op = "prolog" /\ f \in BoundFiles(State, t))
            => stream'[f] = IF due
                            THEN Append(stream[f], HeaderOf(t, columns'[t]))
                            ELSE stream[f]
       /\ (/\ lastop'.op = "emit_row" /\ locked[t] /\ en[t]
           /\ f \in EnabledFiles(State, t))
            => stream'[f] = Append(stream[f], RowLineOf(t, f, columns'[t], val))

\* C32: a csvtab sink writes the header of leaf names at a prolog exactly
\* when the stream position is zero or the stream is not seekable; every
\* emit_row appends one line of the values in flat column order; a csvrel
\* sink writes no header and starts every row with the name of the table.
C32_TextSinks ==
    [][\A t \in LiveTables, f \in TextFiles :
         TextStep(t, f, /\ FileKind(f) = "csvtab"
                        /\ (Len(stream[f]) = 0 \/ ~Seekable(f)))]_vars

\* C32 as the code has it: the header is written at the prolog that makes
\* the formatter of the table at the sink (a prolog that finds one, left by
\* a prolog without an epilog since, writes nothing), when the position is
\* zero or the stream is not seekable.
C32_TextSinksFresh ==
    [][\A t \in LiveTables, f \in TextFiles :
         TextStep(t, f, /\ FileKind(f) = "csvtab"
                        /\ t \notin fmtr[f]
                        /\ (Len(stream[f]) = 0 \/ ~Seekable(f)))]_vars

\* A second session has begun: the seekable file holds one header and a
\* row, the pipe a header, a row and the header of the second session, the
\* csvrel file a row that starts with the name of the table and no header.
C32_Witness ==
    /\ lastop.op = "prolog" /\ lastop.res = "ok"
    /\ stream["F1"] = <<HeaderOf("T1", <<"c1", "c2">>),
                        RowLineOf("T1", "F1", <<"c1", "c2">>, val)>>
    /\ stream["F6"] = <<HeaderOf("T1", <<"c1", "c2">>),
                        RowLineOf("T1", "F6", <<"c1", "c2">>, val),
                        HeaderOf("T1", <<"c1", "c2">>)>>
    /\ stream["F5"] = <<RowLineOf("T1", "F5", <<"c1", "c2">>, val)>>
    /\ stream["F5"][1].lead = <<"R">>
    /\ val["c1"] # val["c2"]

\* C33: in a running process a dirty group that has a parent has a dirty
\* parent, and a table whose dirty flag is false has no null slot in a
\* group below it.
C33_DirtyUpward ==
    lastop.res # "abort" =>
      /\ \A g \in LiveGroups :
            (dirty[g] /\ parent[g] # NULL) => dirty[parent[g]]
      /\ \A t \in LiveTables : ~dirty[t] =>
            \A g \in ({t} \cup Below(t)) \cap GroupLike :
               \A k \in 1..Len(children[g]) : children[g][k] # NULL

\* C34: cleanup of a dirty group returns and leaves the children that were
\* not null, in their order, each with its position as index, and the
\* dirty flag cleared; cleanup of a group that is not dirty changes nothing
\* in the tree.
C34_Cleanup ==
    [][\A g \in LiveGroups :
         (lastop'.op = "cleanup" /\ lastop'.a = g) =>
            /\ lastop'.res = "ok"
            /\ dirty[g] =>
                 /\ children'[g] = SelectSeq(children[g], LAMBDA x : x # NULL)
                 /\ \A k \in 1..Len(children'[g]) : index'[children'[g][k]] = k - 1
                 /\ ~dirty'[g]
            /\ ~dirty[g] =>
                 /\ children' = children /\ index' = index
                 /\ dirty' = dirty /\ parent' = parent
                 /\ item_names' = item_names]_vars

\* C35: when a row hook fails during emit_row the call ends in an error
\* and the table is still locked, with its tree, its bindings and the
\* enabled flags as they were; a locked table is unlocked by epilog only.
C35_RowHookFails ==
    [][\A t \in LiveTables :
         /\ (lastop'.op = "emit_row" /\ lastop'.a = t /\ lastop'.hooks # <<>>
                /\ lastop'.res = "error") =>
               /\ locked[t] /\ locked'[t]
               /\ parent' = parent /\ index' = index /\ children' = children
               /\ item_names' = item_names
               /\ files' = files /\ tables' = tables /\ binding' = binding
               /\ en' = en
         /\ (locked[t] /\ ~locked'[t]) =>
               (lastop'.op = "epilog" /\ lastop'.a = t)]_vars

\* A row hook has failed on the locked table.
C35_Witness ==
    /\ lastop.op = "emit_row" /\ lastop.a = "T1" /\ lastop.res = "error"
    /\ lastop.hooks # <<>>
    /\ locked["T1"]

\* C36: a handler exists for a (table, sink) pair only between the prolog
\* and the epilog of the table, that is only while the table is locked and
\* bound to the sink, and the column offsets it has cached are the offsets
\* computed from the table's flat column sequence, so that the assertion
\* of make_row holds whenever a row is written.
C36_HandlerLifetime ==
    lastop.res # "abort" =>
      \A f \in flive, t \in LiveTables :
         handler[f][t].made =>
            /\ locked[t]
            /\ f \in BoundFiles(State, t)
            /\ make_row(State, f, t).asserts

\* C37: in a cleanup of a dirty group both assertions of the compaction
\* loop hold each time a surviving child is moved down (the destination
\* slot is null, the child's recorded index is the slot it leaves), for
\* every pattern of removed slots: no cleanup ends in a failed assertion.
C37_CleanupAsserts ==
    [][lastop'.op = "cleanup" => lastop'.res # "abort"]_vars

\* C38: on a started bar that is not finished, complete(t) with t greater
\* than the current number of ticks (and not greater than the ticks
\* expected) sets the number of ticks to t, and with t not greater it
\* changes nothing.
C38_Complete ==
    [][(/\ lastop'.op = "complete"
        /\ bar.N > 0 /\ ~bar.finished
        /\ lastop'.a <= bar.N)
          => IF lastop'.a > bar.i
             THEN lastop'.res = "ok" /\ bar'.i = lastop'.a
             ELSE lastop'.res = "ok" /\ bar' = bar]_vars

\* C39: start(n) returns for every n >= 0 and every bar length; after it
\* every tick, complete and finish returns, the marks printed since the
\* start never exceed the bar length, finish leaves the bar finished, and
\* on a finished bar tick, complete and finish print nothing.
C39_BarTerminates ==
    [][/\ lastop'.op = "start" =>
            (lastop'.res = "ok" /\ bar'.marks <= bar'.B)
       /\ (bar.N > 0 /\ lastop'.op \in {"tick", "complete", "finish"}) =>
            /\ lastop'.res = "ok"
            /\ bar'.marks <= bar'.B
            /\ lastop'.op = "finish" => bar'.finished
            /\ bar.finished => bar'.marks = bar.marks]_vars

\* C40: after any sequence of add_item and remove_item the parent relation
\* is acyclic: there is no nonempty set of live items each of which has its
\* parent in the set (no group lies beneath itself or a descendant).
C40_Acyclic ==
    ~ \E S \in SUBSET live :
         S # {} /\ \A x \in S : parent[x] # NULL /\ parent[x] \in S

====
